---- MODULE Spec2Model ----
(***************************************************************************)
(* Life-plan forward simulation engine (calculator.py) as a state machine. *)
(*                                                                         *)
(* Money is an integer number of 1000-yen units; the source's monetary     *)
(* literals appear divided by 1000.  Rates are integers in permille        *)
(* (0.05 -> 50); a float product x * rate is (x * rate) \div 1000 and the  *)
(* monthly compounding factor (1 + annual/12) is applied as                *)
(* x + (x * annual) \div 12000.                                            *)
(***************************************************************************)
EXTENDS Integers, Sequences, FiniteSets, TLC

\* ---------------------------------------------------------------- bounds
\* number of simulated ages (end_age - start_age + 1)
MaxYears == 3
\* number of Monte Carlo trials run by each projector
NumTrials == 2

\* ------------------------------------------------------ program constants
MonthsPerYear == 12
TaxBand1 == 5500
TaxBand2 == 8000
TaxBand3 == 10000
UniversityTuition4y == 5500
UniversityLiving4y == 4560
RetirementLumpAge == 65
McSampleEndAge == 65
BaseYear == 2025

\* ------------------------------------------------------------ arithmetic
Min(a, b) == IF a <= b THEN a ELSE b
Max(a, b) == IF a >= b THEN a ELSE b

\* x * rate for a rate in permille
MulRate(x, rate) == (x * rate) \div 1000

\* (balance) * (1 + annual_return / 12)
Compound(balance, annual_return) == balance + (balance * annual_return) \div 12000

\* round(n / d) for d > 0
RoundDiv(n, d) == (2 * n + d) \div (2 * d)

\* dict.get(key, 0)
Get(d, k) == IF k \in DOMAIN d THEN d[k] ELSE 0

\* sum(d.values())
RECURSIVE SumValues(_)
SumValues(d) ==
    IF DOMAIN d = {} THEN 0
    ELSE LET k == CHOOSE x \in DOMAIN d : TRUE
         IN d[k] + SumValues([x \in DOMAIN d \ {k} |-> d[x]])

\* {**a, **b}: the entries of b override those of a
Merge(a, b) ==
    [k \in DOMAIN a \cup DOMAIN b |-> IF k \in DOMAIN b THEN b[k] ELSE a[k]]

EmptyDict == [k \in {} |-> 0]

RECURSIVE SumSeq(_)
SumSeq(s) == IF s = <<>> THEN 0 ELSE Head(s) + SumSeq(Tail(s))

\* ------------------------------------------------------------- plan data
\* The configuration document (DataLoader.plan_data).  The simulated plans
\* are built from a small number of independent choices.
\* <<start_age, retirement benefit enabled>>
StartChoices == {<<44, FALSE>>, <<64, FALSE>>, <<64, TRUE>>}
\* "single": one income anchor; "rising": two anchors
SalaryChoices == {"single", "rising"}
\* lifetime NISA limits: reached within the horizon, or never
LimitChoices == {"tight", "loose"}
ReturnProfiles == {"zero", "incentive", "growth"}
\* marriage and home purchase: outside the simulated ages, cheap, or costly
LifeEventChoices == {"none", "cheap", "costly"}
\* <<first child offset, second child offset>> from start_age
ChildChoices == {<<50, 50>>, <<-19, -17>>, <<0, 50>>}
CustomEventChoices == {"none", "saved", "short"}

PhaseInvestment(nisa_monthly) ==
    [ nisa_tsumitate |-> nisa_monthly, company_stock |-> 30, education_fund |-> 40,
      marriage_fund |-> 50, child_preparation_fund |-> 10,
      emergency_fund |-> 10, high_dividend_stocks |-> 20 ]

CustomEventsOf(sa, cev) ==
    IF cev = "none"
    THEN [ enabled |-> FALSE, events |-> <<>> ]
    ELSE [ enabled |-> TRUE,
           events |-> <<
             [ id |-> 1, name |-> "car", age |-> sa + 1,
               amount |-> IF cev = "saved" THEN 300 ELSE 900,
               enabled |-> TRUE,
               auto_saving |-> [ enabled |-> TRUE, start_age |-> sa,
                                 monthly_amount |-> 30 ] ],
             [ id |-> 2, name |-> "trip", age |-> sa + 1, amount |-> 200,
               enabled |-> (cev = "short"),
               auto_saving |-> [ enabled |-> FALSE, start_age |-> sa,
                                 monthly_amount |-> 0 ] ] >> ]

MakePlan(sa, rb, sal, lim, ret, infl, life, c1, c2, cev) ==
    [ basic_info |->
        [ start_age |-> sa, end_age |-> sa + MaxYears - 1, birth_month |-> 4,
          marriage_age |-> IF life = "none" THEN 99 ELSE sa + 1,
          first_child_birth_age |-> sa + c1,
          second_child_birth_age |-> sa + c2 ],
      life_events |->
        [ marriage |->
            [ age |-> IF life = "none" THEN 0 ELSE sa + 1,
              cost |-> IF life = "costly" THEN 2400 ELSE 600 ],
          home_purchase |->
            [ age |-> IF life = "none" THEN 0 ELSE sa + 2,
              down_payment |-> IF life = "costly" THEN 4000 ELSE 500,
              closing_costs |-> IF life = "costly" THEN 600 ELSE 100 ] ],
      income_progression |->
        [ a \in (IF sal = "single" THEN {sa - 2} ELSE {sa - 2, sa + 1}) |->
            [ base_salary |-> IF sal = "single" THEN 120
                              ELSE IF a < sa THEN 480 ELSE 600,
              bonus_months |-> 4 ] ],
      spouse_income |-> [ k \in {"28-47", "48-64"} |->
                            IF k = "28-47" THEN 100 ELSE 80 ],
      pension |-> [ monthly_amount |-> 180, spouse_monthly_amount |-> 100,
                    start_age |-> 65,
                    deferral_options |-> [ enabled |-> FALSE,
                                           monthly_rate |-> 7 ] ],
      housing_allowance |-> [ k \in {"45-49"} |-> 20 ],
      housing_costs |->
        [ k \in {"28-49", "50-55"} |->
            IF k = "28-49"
            THEN [ rent |-> 0, mortgage |-> 90, utilities |-> 20 ]
            ELSE [ rent |-> 0, mortgage |-> 0, utilities |-> 25 ] ],
      phase_definitions |->
        << [ name |-> "phase_a", start |-> sa, end |-> sa + 1,
             monthly_expenses |-> [ food |-> 60, other |-> 45 ],
             monthly_investment |-> PhaseInvestment(70),
             bonus_allocation |-> [ nisa_growth |-> 300 ] ],
           [ name |-> "phase_b", start |-> sa + 2, end |-> sa + 2,
             monthly_expenses |-> [ food |-> 70, other |-> 55 ],
             monthly_investment |-> PhaseInvestment(110),
             bonus_allocation |-> [ nisa_growth |-> 300,
                                    education_fund |-> 100 ] ] >>,
      child_allowance |-> [ age_0_2 |-> 15, age_3_14 |-> 10,
                            age_3_14_second_child |-> 15 ],
      high_school_subsidy |-> 118,
      education_costs_per_child |->
        [ age_0_5 |-> [ childcare |-> 360 ],
          age_6_11 |-> [ school_fees |-> 100, lessons |-> 120 ],
          age_12_14 |-> [ school_fees |-> 150, cram_school |-> 300 ],
          age_15_17 |-> [ school_fees |-> 200, cram_school |-> 400 ],
          age_18 |-> [ exam_fees |-> 300 ],
          age_19_22 |-> [ tuition |-> 1300 ] ],
      investment_settings |->
        [ nisa |-> [ tsumitate_limit |-> IF lim = "tight" THEN 1500 ELSE 90000,
                     growth_limit |-> IF lim = "tight" THEN 400 ELSE 90000,
                     expected_return |-> IF ret = "growth" THEN 60 ELSE 0 ],
          taxable_account |->
            [ expected_return |-> IF ret = "growth" THEN 36 ELSE 0 ],
          education_fund |->
            [ expected_return |-> IF ret = "growth" THEN 12 ELSE 0 ],
          company_stock |->
            [ initial_price |-> 2000,
              price_growth_rate |-> IF ret = "growth" THEN 30 ELSE 0,
              dividend_yield |-> IF ret = "growth" THEN 25 ELSE 0,
              incentive_rate |-> IF ret = "zero" THEN 0 ELSE 100 ],
          dividend_reinvestment |->
            [ age_0_45 |-> 1000, age_46_55 |-> 500, age_56_64 |-> 200,
              age_65_99 |-> 0 ] ],
      tax_rates |->
        [ social_insurance_rate |-> 150,
          income_tax_rates |-> [ band1 |-> 200, band2 |-> 230,
                                 band3 |-> 330, band4 |-> 430 ],
          social_insurance_detailed |->
            [ enabled |-> (sal = "rising"),
              health_insurance |-> [ max_monthly_salary |-> 1390,
                                     rate |-> 100 ],
              employee_pension |-> [ max_monthly_salary |-> 650,
                                     rate |-> 183, employee_share |-> 500 ],
              employment_insurance |-> [ rate |-> 6 ] ] ],
      inflation_settings |-> [ enabled |-> infl, living_expenses_rate |-> 20,
                               education_rate |-> 30 ],
      retirement_benefit |->
        [ enabled |-> rb, lump_sum |-> 30000,
          tax_deduction |-> [ years_of_service |-> 38 ],
          corporate_pension |-> [ enabled |-> rb, start_age |-> 66,
                                  years |-> 10, monthly_amount |-> 50 ] ],
      custom_large_purchase_events |-> CustomEventsOf(sa, cev) ]

Plans ==
    { MakePlan(st[1], st[2], sal, lim, ret, infl, life, ch[1], ch[2], cev) :
        st \in StartChoices, sal \in SalaryChoices, lim \in LimitChoices,
        ret \in ReturnProfiles, infl \in BOOLEAN, life \in LifeEventChoices,
        ch \in ChildChoices, cev \in CustomEventChoices }

\* -------------------------------------------------------- rule resolver
SetMin(S) == CHOOSE x \in S : \A y \in S : x <= y
SetMax(S) == CHOOSE x \in S : \A y \in S : x >= y

\* dict.get(key, default)
GetOr(d, k, default) == IF k \in DOMAIN d THEN d[k] ELSE default

\* sorted(S) for a finite set of integers
RECURSIVE SortedSeq(_)
SortedSeq(S) ==
    IF S = {} THEN << >>
    ELSE << SetMin(S) >> \o SortedSeq(S \ {SetMin(S)})

\* the same loop with a strict comparison
RECURSIVE ScanAnchorsStrict(_, _, _)
ScanAnchorsStrict(ages, age, applicable_age) ==
    IF ages = << >> THEN applicable_age
    ELSE IF age > Head(ages)
    THEN ScanAnchorsStrict(Tail(ages), age, Head(ages))
    ELSE applicable_age

\* for a in ages: if age >= a: applicable_age = a, else: break
RECURSIVE ScanAnchors(_, _, _)
ScanAnchors(ages, age, applicable_age) ==
    IF ages = << >> THEN applicable_age
    ELSE IF age >= Head(ages)
    THEN ScanAnchors(Tail(ages), age, Head(ages))
    ELSE applicable_age

\* The anchor keys are decimal strings holding the integers they are sorted
\* by (int(a) on reading, str(applicable_age) on lookup); an anchor is
\* identified by that integer.
get_salary_for_age(p, age) ==
    LET ages == SortedSeq(DOMAIN p.income_progression)
        applicable_age == ScanAnchors(ages, age, ages[1])
    IN p.income_progression[applicable_age]

get_spouse_income_for_age(p, age) ==
    IF age < p.basic_info.marriage_age THEN 0
    ELSE IF age < 48 THEN Get(p.spouse_income, "28-47")
    ELSE IF age < 65 THEN Get(p.spouse_income, "48-64")
    ELSE Get(p.spouse_income, "65-99")

\* <<own monthly pension, spouse monthly pension>>
calculate_pension_amount_detailed(p, start_age) ==
    LET base_amount == GetOr(p.pension, "monthly_amount", 180)
        spouse_amount == GetOr(p.pension, "spouse_monthly_amount", 100)
        months_diff == (start_age - 65) * 12
        deferral == "deferral_options" \in DOMAIN p.pension
                    /\ GetOr(p.pension.deferral_options, "enabled", FALSE)
        delta(x) ==
            IF start_age < 65 THEN 0 - MulRate(x * (0 - months_diff), 4)
            ELSE IF start_age > 65
            THEN MulRate(x * months_diff, p.pension.deferral_options.monthly_rate)
            ELSE 0
    IN IF deferral
       THEN << base_amount + delta(base_amount), spouse_amount + delta(spouse_amount) >>
       ELSE << base_amount, spouse_amount >>

get_pension_for_age(p, age) ==
    LET start_age == GetOr(p.pension, "start_age", 65)
    IN IF age >= start_age
       THEN calculate_pension_amount_detailed(p, start_age)[1]
       ELSE 0

get_housing_allowance_for_age(p, age) ==
    IF 45 <= age /\ age <= 49 THEN Get(p.housing_allowance, "45-49") ELSE 0

get_housing_costs_for_age(p, age) ==
    IF age <= 27 THEN GetOr(p.housing_costs, "25-27", EmptyDict)
    ELSE IF age <= 49 THEN GetOr(p.housing_costs, "28-49", EmptyDict)
    ELSE GetOr(p.housing_costs, "50-55", EmptyDict)

\* index of the first phase, in table order, whose inclusive range holds
\* the age; 0 stands for None
get_phase_for_age(p, age) ==
    LET phases == p.phase_definitions
        hits == {i \in 1..Len(phases) :
                    phases[i].start <= age /\ age <= phases[i].end}
    IN IF hits = {} THEN 0 ELSE SetMin(hits)

calculate_child_allowance(p, age) ==
    LET first_child_birth == p.basic_info.first_child_birth_age
        second_child_birth == p.basic_info.second_child_birth_age
        ca == p.child_allowance
        child1 == IF age >= first_child_birth
                  THEN IF age - first_child_birth <= 2 THEN ca.age_0_2
                       ELSE IF age - first_child_birth <= 14 THEN ca.age_3_14
                       ELSE 0
                  ELSE 0
        child2 == IF age >= second_child_birth
                  THEN IF age - second_child_birth <= 2
                       THEN ca.age_3_14_second_child
                       ELSE IF age - second_child_birth <= 14 THEN ca.age_3_14
                       ELSE 0
                  ELSE 0
    IN child1 + child2

\* ------------------------------------------------- income and tax
calculate_social_insurance_detailed(p, monthly_salary) ==
    LET tr == p.tax_rates
    IN IF "social_insurance_detailed" \in DOMAIN tr
          /\ GetOr(tr.social_insurance_detailed, "enabled", FALSE)
       THEN LET si == tr.social_insurance_detailed
                health_salary ==
                    Min(monthly_salary, si.health_insurance.max_monthly_salary)
                health_insurance ==
                    MulRate(health_salary, si.health_insurance.rate) \div 2
                pension_salary ==
                    Min(monthly_salary, si.employee_pension.max_monthly_salary)
                employee_pension ==
                    MulRate(MulRate(pension_salary, si.employee_pension.rate),
                            si.employee_pension.employee_share)
                employment_insurance ==
                    MulRate(monthly_salary, si.employment_insurance.rate)
            IN health_insurance + employee_pension + employment_insurance
       ELSE MulRate(monthly_salary, tr.social_insurance_rate)

calculate_takehome(p, gross_annual, housing_allowance) ==
    LET taxable_income == gross_annual + housing_allowance
        monthly_average == taxable_income \div 12
        social_insurance ==
            calculate_social_insurance_detailed(p, monthly_average) * 12
        tax_base == taxable_income - social_insurance
        rates == p.tax_rates.income_tax_rates
        tax_rate == IF taxable_income <= TaxBand1 THEN rates.band1
                    ELSE IF taxable_income <= TaxBand2 THEN rates.band2
                    ELSE IF taxable_income <= TaxBand3 THEN rates.band3
                    ELSE rates.band4
        income_tax == MulRate(tax_base, tax_rate)
    IN taxable_income - social_insurance - income_tax

\* ------------------------------------------------- expense evaluator
\* (1 + rate) ** years in permille
RECURSIVE InflationFactor(_, _)
InflationFactor(rate, years) ==
    IF years <= 0 THEN 1000
    ELSE MulRate(InflationFactor(rate, years - 1), 1000 + rate)

apply_inflation(p, base_amount, years, rate) ==
    IF ~GetOr(p.inflation_settings, "enabled", FALSE) THEN base_amount
    ELSE RoundDiv(base_amount * InflationFactor(rate, years), 1000)

\* ------------------------------------------------- retirement benefit
\* net amount of the lump sum after the retirement-income tax
calculate_retirement_benefit_tax(lump_sum, years_of_service) ==
    LET deduction == IF years_of_service <= 20 THEN 400 * years_of_service
                     ELSE 8000 + 700 * (years_of_service - 20)
        taxable_amount == Max(0, (lump_sum - deduction) \div 2)
        tax == IF taxable_amount <= 1950 THEN (taxable_amount * 50) \div 1000
               ELSE IF taxable_amount <= 3300
               THEN (taxable_amount * 100 - 97500) \div 1000
               ELSE IF taxable_amount <= 6950
               THEN (taxable_amount * 200 - 427500) \div 1000
               ELSE IF taxable_amount <= 9000
               THEN (taxable_amount * 230 - 636000) \div 1000
               ELSE IF taxable_amount <= 18000
               THEN (taxable_amount * 330 - 1536000) \div 1000
               ELSE (taxable_amount * 400 - 2796000) \div 1000
        total_tax == tax + MulRate(taxable_amount, 100)
    IN lump_sum - total_tax

get_retirement_benefit(p, age) ==
    LET rb == GetOr(p, "retirement_benefit", EmptyDict)
        none == [ lump_sum_net |-> 0, corporate_pension |-> 0 ]
    IN IF ~GetOr(rb, "enabled", FALSE) THEN none
       ELSE IF age = RetirementLumpAge
       THEN [ lump_sum_net |->
                calculate_retirement_benefit_tax(
                    Get(rb, "lump_sum"),
                    GetOr(GetOr(rb, "tax_deduction", EmptyDict),
                          "years_of_service", 38)),
              corporate_pension |-> 0 ]
       ELSE LET cp == GetOr(rb, "corporate_pension", EmptyDict)
                start_age == GetOr(cp, "start_age", 65)
                end_age == start_age + GetOr(cp, "years", 10)
            IN IF GetOr(cp, "enabled", FALSE)
                  /\ start_age <= age /\ age < end_age
               THEN [ lump_sum_net |-> 0,
                      corporate_pension |-> Get(cp, "monthly_amount") ]
               ELSE none

\* ------------------------------------------------- custom events
get_custom_events(p) ==
    LET ce == GetOr(p, "custom_large_purchase_events", EmptyDict)
    IN IF ~GetOr(ce, "enabled", FALSE) THEN <<>>
       ELSE GetOr(ce, "events", <<>>)

get_active_custom_events(p) ==
    SelectSeq(get_custom_events(p), LAMBDA e : GetOr(e, "enabled", FALSE))

get_custom_events_for_age(p, age) ==
    SelectSeq(get_active_custom_events(p), LAMBDA e : e.age = age)

\* {event_id: monthly_amount} for the events being saved for at this age
get_custom_event_saving_for_age(p, age) ==
    LET active == get_active_custom_events(p)
        saving(e) ==
            LET auto == GetOr(e, "auto_saving", EmptyDict)
            IN GetOr(auto, "enabled", FALSE)
               /\ GetOr(auto, "start_age", e.age - 5) <= age
               /\ age < e.age
        idx == {i \in 1..Len(active) : saving(active[i])}
    IN [ id \in {active[i].id : i \in idx} |->
           LET i == SetMax({j \in idx : active[j].id = id})
           IN Get(active[i].auto_saving, "monthly_amount") ]

\* ------------------------------------------------- required keys
\* d[k] on a dict raises KeyError when the key is absent.
\* simulate_30_years reads the three keys before anything else
StartRaises(p) ==
    ~({"start_age", "end_age", "birth_month"} \subseteq DOMAIN p.basic_info)

\* calculate_monthly_data reads marriage_age (spouse income) and the two
\* birth ages (child allowance)
MonthRaises(p) ==
    ~({"marriage_age", "first_child_birth_age", "second_child_birth_age"}
        \subseteq DOMAIN p.basic_info)

\* the year-end marriage test reads life_events["marriage"]["age"]
MarriageRaises(p) == "marriage" \notin DOMAIN p.life_events

\* the year-end home-purchase test reads life_events["home_purchase"]["age"]
HomePurchaseRaises(p) == "home_purchase" \notin DOMAIN p.life_events

\* ------------------------------------------------- monthly record
is_bonus_month(month) == month \in {6, 12}

calculate_monthly_data(p, age, month, assets_previous_month) ==
    LET years_from_start == age - p.basic_info.start_age
        salary == get_salary_for_age(p, age)
        base_salary == salary.base_salary
        bonus_months == salary.bonus_months
        annual_salary == base_salary * (12 + bonus_months)
        housing_allowance_monthly == get_housing_allowance_for_age(p, age)
        net_annual ==
            calculate_takehome(p, annual_salary, housing_allowance_monthly * 12)
        monthly_net_salary == net_annual \div 12
        bonus_net ==
            IF is_bonus_month(month)
            THEN calculate_takehome(p, (base_salary * bonus_months) \div 2, 0)
            ELSE 0
        spouse_income == get_spouse_income_for_age(p, age)
        pension_income == get_pension_for_age(p, age)
        child_allowance == calculate_child_allowance(p, age)
        total_income == monthly_net_salary + bonus_net + spouse_income
                        + pension_income + child_allowance
        phase_index == get_phase_for_age(p, age)
        has_phase == phase_index # 0
        phase == p.phase_definitions[phase_index]
        housing_costs == get_housing_costs_for_age(p, age)
        rent == Get(housing_costs, "rent")
        mortgage == Get(housing_costs, "mortgage")
        utilities == Get(housing_costs, "utilities")
        monthly_expenses ==
            IF has_phase
            THEN [ k \in DOMAIN phase.monthly_expenses |->
                     apply_inflation(p, phase.monthly_expenses[k], years_from_start,
                         Get(p.inflation_settings, "living_expenses_rate")) ]
            ELSE EmptyDict
        total_monthly_expenses ==
            SumValues(monthly_expenses) + rent + mortgage + utilities
        monthly_investment ==
            IF has_phase THEN GetOr(phase, "monthly_investment", EmptyDict)
            ELSE EmptyDict
        total_monthly_investment == SumValues(monthly_investment)
        bonus_allocation ==
            IF is_bonus_month(month) /\ has_phase
            THEN LET ba == GetOr(phase, "bonus_allocation", EmptyDict)
                 IN [ k \in DOMAIN ba |-> ba[k] \div 2 ]
            ELSE EmptyDict
        total_bonus_allocation == SumValues(bonus_allocation)
        monthly_cashflow == total_income - total_monthly_expenses
                            - total_monthly_investment - total_bonus_allocation
    IN [ age |-> age,
         month |-> month,
         year |-> BaseYear + years_from_start,
         income |-> [ salary_net |-> monthly_net_salary,
                      bonus_net |-> bonus_net,
                      spouse_income |-> spouse_income,
                      pension |-> pension_income,
                      child_allowance |-> child_allowance,
                      housing_allowance |-> Max(housing_allowance_monthly, 0),
                      total |-> total_income ],
         expenses |-> Merge(Merge([ housing_rent |-> rent,
                                    housing_mortgage |-> mortgage,
                                    housing_utilities |-> utilities ],
                                  monthly_expenses),
                            [ total |-> total_monthly_expenses ]),
         investment |-> Merge(Merge(monthly_investment, bonus_allocation),
                              [ total |-> total_monthly_investment
                                          + total_bonus_allocation ]),
         cashflow |-> [ monthly |-> monthly_cashflow ],
         assets |-> [ nisa_balance |-> Get(assets_previous_month, "nisa_balance"),
                      company_stock_balance |->
                          Get(assets_previous_month, "company_stock_balance"),
                      cash_balance |-> Get(assets_previous_month, "cash_balance"),
                      total |-> Get(assets_previous_month, "total") ] ]

\* ------------------------------------------------- asset ledger
\* The assets dict of a simulation run.  custom_event_funds[id] stands for
\* the key custom_event_<id>_fund; company_stock_shares counts hundredths
\* of a share and the share price is kept in yen.

\* a ledger opened with a total already stored
InitialAssetsOpeningTotal(p) ==
    [ nisa_tsumitate_balance |-> 0,
      nisa_growth_balance |-> 0,
      company_stock_balance |-> 0,
      company_stock_shares |-> 0,
      education_fund_balance |-> 0,
      marriage_fund_balance |-> 0,
      taxable_account_balance |-> 0,
      cash_balance |-> 0,
      total |-> 100,
      custom_event_funds |->
        LET active == get_active_custom_events(p)
        IN [ id \in {active[i].id : i \in 1..Len(active)} |-> 0 ] ]

\* the ledger a run opens with
InitialAssets(p) ==
    [ nisa_tsumitate_balance |-> 0,
      nisa_growth_balance |-> 0,
      company_stock_balance |-> 0,
      company_stock_shares |-> 0,
      education_fund_balance |-> 0,
      marriage_fund_balance |-> 0,
      taxable_account_balance |-> 0,
      cash_balance |-> 0,
      total |-> 0,
      custom_event_funds |->
        LET active == get_active_custom_events(p)
        IN [ id \in {active[i].id : i \in 1..Len(active)} |-> 0 ] ]

\* the absorption without the min(): the whole request while under the limit
NisaAbsorbedUncapped(requested, total_contribution, limit) ==
    IF total_contribution < limit THEN requested ELSE 0

\* amount a capped NISA bucket absorbs of a requested contribution
NisaAbsorbed(requested, total_contribution, limit) ==
    IF total_contribution < limit
    THEN Min(requested, limit - total_contribution)
    ELSE 0

\* amount of a requested NISA contribution sent to the taxable account
NisaToTaxable(requested, total_contribution, limit) ==
    IF total_contribution < limit THEN 0 ELSE requested

\* shares bought for an amount at a price
SharesFor(amount_permille, price) == (amount_permille * 100) \div price

\* value of a share count at a price
StockValue(shares, price) == (shares * price) \div 100000

\* a contribution added to a balance, which then earns one month's return
Deposit(a, field, amount, annual_return) ==
    IF amount > 0
    THEN [a EXCEPT ![field] = Compound(@ + amount, annual_return)]
    ELSE a

\* a NISA contribution: into the capped bucket while its cumulative counter
\* is under the limit, into the taxable account once the limit is reached
NisaDeposit(a, field, requested, total, limit, nisa_return, taxable_return) ==
    IF requested <= 0 THEN a
    ELSE IF total < limit
    THEN [a EXCEPT ![field] =
            Compound(@ + NisaAbsorbed(requested, total, limit),
                     nisa_return)]
    ELSE [a EXCEPT !.taxable_account_balance =
            Compound(@ + NisaToTaxable(requested, total, limit),
                     taxable_return)]

\* company stock bought without the incentive
BuyCompanyStockNoIncentive(a, amount, incentive_rate, price) ==
    IF amount > 0
    THEN [a EXCEPT !.company_stock_shares = @ + SharesFor(amount * 1000, price)]
    ELSE a

\* company stock bought with the incentive at the current price
BuyCompanyStock(a, amount, incentive_rate, price) ==
    IF amount > 0
    THEN [a EXCEPT !.company_stock_shares =
            @ + SharesFor(amount * (1000 + incentive_rate), price)]
    ELSE a

\* a contribution kept as cash
AddCash(a, amount) ==
    IF amount > 0 THEN [a EXCEPT !.cash_balance = @ + amount] ELSE a

\* the NISA flows of one month
NisaFlows(inv, tsumitate_total, growth_total, nisa) ==
    LET t_req == Get(inv, "nisa_tsumitate")
        g_req == Get(inv, "nisa_growth")
    IN [ tsumitate_requested |-> t_req,
         tsumitate_absorbed |->
            IF t_req > 0
            THEN NisaAbsorbed(t_req, tsumitate_total, nisa.tsumitate_limit) ELSE 0,
         tsumitate_to_taxable |->
            IF t_req > 0
            THEN NisaToTaxable(t_req, tsumitate_total, nisa.tsumitate_limit) ELSE 0,
         growth_requested |-> g_req,
         growth_absorbed |->
            IF g_req > 0
            THEN NisaAbsorbed(g_req, growth_total, nisa.growth_limit) ELSE 0,
         growth_to_taxable |->
            IF g_req > 0
            THEN NisaToTaxable(g_req, growth_total, nisa.growth_limit) ELSE 0 ]

\* custom-event savings, moved from cash into the event funds without interest
SaveForCustomEvents(a, event_savings) ==
    [a EXCEPT !.custom_event_funds =
                 [ id \in DOMAIN @ |-> @[id] + Get(event_savings, id) ],
              !.cash_balance = @ - SumValues(event_savings)]

\* The monthly asset update of simulate_30_years: the ledger after one
\* month's contributions.
MonthlyAssetUpdate(p, a, tsumitate_total, growth_total, price, month_data, at_age) ==
    LET inv == month_data.investment
        is == p.investment_settings
        nisa_ret == is.nisa.expected_return
        tax_ret == is.taxable_account.expected_return
        edu_ret == is.education_fund.expected_return
        a1 == NisaDeposit(a, "nisa_tsumitate_balance", Get(inv, "nisa_tsumitate"),
                          tsumitate_total, is.nisa.tsumitate_limit,
                          nisa_ret, tax_ret)
        a2 == NisaDeposit(a1, "nisa_growth_balance", Get(inv, "nisa_growth"),
                          growth_total, is.nisa.growth_limit, nisa_ret, tax_ret)
        a3 == BuyCompanyStock(a2, Get(inv, "company_stock"),
                              is.company_stock.incentive_rate, price)
        a4 == Deposit(a3, "education_fund_balance", Get(inv, "education_fund"),
                      edu_ret)
        a5 == Deposit(a4, "marriage_fund_balance", Get(inv, "marriage_fund"),
                      edu_ret)
        a6 == AddCash(a5, Get(inv, "child_preparation_fund"))
        a7 == AddCash(a6, Get(inv, "emergency_fund"))
        a8 == Deposit(a7, "taxable_account_balance",
                      Get(inv, "high_dividend_stocks"), tax_ret)
        a9 == [a8 EXCEPT !.cash_balance = @ + month_data.cashflow.monthly]
    IN SaveForCustomEvents(a9, get_custom_event_saving_for_age(p, at_age))

\* ------------------------------------------------- year-end processing
\* annual school cost of one child of the given age (before university)
ChildEducationCost(p, child_age) ==
    LET ec == GetOr(p, "education_costs_per_child", EmptyDict)
        cost(band, item) == Get(GetOr(ec, band, EmptyDict), item)
    IN IF ~(0 <= child_age /\ child_age <= 22) THEN 0
       ELSE IF child_age <= 5 THEN cost("age_0_5", "childcare")
       ELSE IF child_age <= 11
       THEN cost("age_6_11", "school_fees") + cost("age_6_11", "lessons")
       ELSE IF child_age <= 14
       THEN cost("age_12_14", "school_fees") + cost("age_12_14", "cram_school")
       ELSE IF child_age <= 17
       THEN cost("age_15_17", "school_fees") + cost("age_15_17", "cram_school")
            - GetOr(p, "high_school_subsidy", 0)
       ELSE IF child_age = 18 THEN cost("age_18", "exam_fees")
       ELSE 0

\* education costs of the year, paid from cash
PayEducationCosts(p, a, age) ==
    LET annual_education_cost ==
            ChildEducationCost(p, age - p.basic_info.first_child_birth_age)
            + ChildEducationCost(p, age - p.basic_info.second_child_birth_age)
        adjusted_cost ==
            IF annual_education_cost > 0
            THEN apply_inflation(p, annual_education_cost,
                                 age - p.basic_info.start_age,
                                 Get(p.inflation_settings, "education_rate"))
            ELSE 0
    IN [ assets |-> [a EXCEPT !.cash_balance = @ - adjusted_cost],
         adjusted_cost |-> adjusted_cost ]

\* one custom event: its dedicated fund first, the shortfall from cash
SettleCustomEvent(a, event) ==
    LET event_amount == event.amount
        fund_balance == Get(a.custom_event_funds, event.id)
        shortfall == event_amount - fund_balance
        fund_name == <<event.name, "fund">>
    IN IF fund_balance >= event_amount
       THEN [ assets |-> [a EXCEPT !.custom_event_funds[event.id] = @ - event_amount],
              payment_sources |->
                << [ source |-> fund_name, amount |-> event_amount ] >> ]
       ELSE [ assets |->
                [ (IF fund_balance > 0
                   THEN [a EXCEPT !.custom_event_funds[event.id] = 0]
                   ELSE a)
                  EXCEPT !.cash_balance = @ - shortfall ],
              payment_sources |->
                (IF fund_balance > 0
                 THEN << [ source |-> fund_name, amount |-> fund_balance ] >>
                 ELSE <<>>)
                \o << [ source |-> <<"cash">>, amount |-> shortfall ] >> ]

\* all custom events of the age, in list order
RECURSIVE SettleCustomEvents(_, _)
SettleCustomEvents(a, events) ==
    IF events = <<>>
    THEN [ assets |-> a, entries |-> <<>>, settled |-> <<>> ]
    ELSE LET first == SettleCustomEvent(a, Head(events))
             rest == SettleCustomEvents(first.assets, Tail(events))
         IN [ assets |-> rest.assets,
              entries |->
                << [ type |-> <<"custom_event", Head(events).name>>,
                     amount |-> Head(events).amount,
                     payment_sources |-> first.payment_sources ] >>
                \o rest.entries,
              settled |->
                << [ kind |-> "custom_event",
                     amount |-> Head(events).amount,
                     sources |-> first.payment_sources,
                     before |-> a, after |-> first.assets ] >>
                \o rest.settled ]

DividendReinvestRate(p, age) ==
    LET dr == p.investment_settings.dividend_reinvestment
    IN IF age <= 45 THEN dr.age_0_45
       ELSE IF age <= 55 THEN dr.age_46_55
       ELSE IF age <= 64 THEN dr.age_56_64
       ELSE dr.age_65_99

\* share price update, year-end dividend and its reinvestment
UpdateStockAndDividend(p, a, price, age) ==
    LET cs == p.investment_settings.company_stock
        new_price == price + MulRate(price, cs.price_growth_rate)
        balance == StockValue(a.company_stock_shares, new_price)
        a1 == [a EXCEPT !.company_stock_balance = balance]
        annual_dividend == MulRate(balance, cs.dividend_yield)
        reinvest_amount == MulRate(annual_dividend, DividendReinvestRate(p, age))
        cash_dividend == annual_dividend - reinvest_amount
        shares2 == a.company_stock_shares + SharesFor(reinvest_amount * 1000, new_price)
        a2 == IF reinvest_amount > 0
              THEN [a1 EXCEPT !.company_stock_shares = shares2,
                              !.company_stock_balance = StockValue(shares2, new_price)]
              ELSE a1
        a3 == [a2 EXCEPT !.cash_balance = @ + cash_dividend]
    IN IF balance > 0
       THEN [ assets |-> a3, stock_price |-> new_price,
              annual_dividend_total |-> annual_dividend,
              annual_dividend_received |-> cash_dividend ]
       ELSE [ assets |-> a1, stock_price |-> new_price,
              annual_dividend_total |-> 0, annual_dividend_received |-> 0 ]

\* marriage: the marriage fund first, the shortfall from cash
SettleMarriage(p, a) ==
    LET marriage_cost == p.life_events.marriage.cost
        marriage_fund_used == a.marriage_fund_balance
        shortfall == marriage_cost - a.marriage_fund_balance
    IN IF a.marriage_fund_balance >= marriage_cost
       THEN [ assets |-> [a EXCEPT !.marriage_fund_balance = @ - marriage_cost],
              payment_sources |->
                << [ source |-> <<"marriage_fund">>, amount |-> marriage_cost ] >> ]
       ELSE [ assets |-> [a EXCEPT !.marriage_fund_balance = 0,
                                   !.cash_balance = @ - shortfall],
              payment_sources |->
                (IF marriage_fund_used > 0
                 THEN << [ source |-> <<"marriage_fund">>,
                           amount |-> marriage_fund_used ] >>
                 ELSE <<>>)
                \o << [ source |-> <<"cash">>, amount |-> shortfall ] >> ]

\* home purchase: cash, then the education fund, then NISA growth
SettleHomePurchase(p, a) ==
    LET hp == p.life_events.home_purchase
        total_upfront == hp.down_payment + hp.closing_costs
        cash_used == a.cash_balance
        shortfall == total_upfront - a.cash_balance
        education_fund_used == a.education_fund_balance
        remaining_shortfall == shortfall - a.education_fund_balance
        nisa_used == a.nisa_growth_balance
        src(name, amount) ==
            IF amount > 0 THEN << [ source |-> <<name>>, amount |-> amount ] >>
            ELSE <<>>
    IN IF a.cash_balance >= total_upfront
       THEN [ assets |-> [a EXCEPT !.cash_balance = @ - total_upfront],
              payment_sources |->
                << [ source |-> <<"cash">>, amount |-> total_upfront ] >> ]
       ELSE IF a.education_fund_balance >= shortfall
       THEN [ assets |-> [a EXCEPT !.cash_balance = 0,
                                   !.education_fund_balance = @ - shortfall],
              payment_sources |->
                src("cash", cash_used)
                \o << [ source |-> <<"education_fund">>, amount |-> shortfall ] >> ]
       ELSE IF a.nisa_growth_balance >= remaining_shortfall
       THEN [ assets |-> [a EXCEPT !.cash_balance = 0,
                                   !.education_fund_balance = 0,
                                   !.nisa_growth_balance = @ - remaining_shortfall],
              payment_sources |->
                src("cash", cash_used)
                \o src("education_fund", education_fund_used)
                \o << [ source |-> <<"nisa_growth">>,
                        amount |-> remaining_shortfall ] >> ]
       ELSE [ assets |-> [a EXCEPT !.cash_balance = 0,
                                   !.education_fund_balance = 0,
                                   !.nisa_growth_balance =
                                       Max(0, @ - remaining_shortfall)],
              payment_sources |->
                src("cash", cash_used)
                \o src("education_fund", education_fund_used)
                \o src("nisa_growth", nisa_used) ]

\* the two irregular-expense entries recorded for a home purchase
HomePurchaseEntries(p, payment_sources) ==
    LET n == Len(payment_sources)
    IN << [ type |-> <<"home_purchase_down_payment">>,
            amount |-> p.life_events.home_purchase.down_payment,
            payment_sources |->
              IF n > 1 THEN SubSeq(payment_sources, 1, n \div 2)
              ELSE payment_sources ],
          [ type |-> <<"home_purchase_closing_costs">>,
            amount |-> p.life_events.home_purchase.closing_costs,
            payment_sources |->
              IF n > 1 THEN SubSeq(payment_sources, n \div 2 + 1, n)
              ELSE <<>> ] >>

\* university cost of one child of the given age
UniversityCost(child_age) ==
    IF 19 <= child_age /\ child_age <= 22
    THEN UniversityTuition4y \div 4 + UniversityLiving4y \div 4
    ELSE 0

\* university costs taken from cash alone
SettleUniversityFromCash(p, a, age) ==
    LET university_cost_this_year ==
            UniversityCost(age - p.basic_info.first_child_birth_age)
            + UniversityCost(age - p.basic_info.second_child_birth_age)
    IN IF university_cost_this_year > 0
       THEN [ assets |-> [a EXCEPT !.cash_balance = @ - university_cost_this_year],
              cost |-> university_cost_this_year,
              payment_sources |-> << [ source |-> <<"cash">>,
                                       amount |-> university_cost_this_year ] >>,
              entries |-> <<>> ]
       ELSE [ assets |-> a, cost |-> 0, payment_sources |-> <<>>, entries |-> <<>> ]

\* university costs: the education fund first, the shortfall from cash
SettleUniversity(p, a, age) ==
    LET first_child_age == age - p.basic_info.first_child_birth_age
        second_child_age == age - p.basic_info.second_child_birth_age
        details ==
            (IF UniversityCost(first_child_age) > 0
             THEN << [ child |-> "first", age |-> first_child_age,
                       amount |-> UniversityCost(first_child_age) ] >>
             ELSE <<>>)
            \o (IF UniversityCost(second_child_age) > 0
                THEN << [ child |-> "second", age |-> second_child_age,
                          amount |-> UniversityCost(second_child_age) ] >>
                ELSE <<>>)
        university_cost_this_year ==
            UniversityCost(first_child_age) + UniversityCost(second_child_age)
        education_fund_used == a.education_fund_balance
        shortfall == university_cost_this_year - a.education_fund_balance
        payment_sources ==
            IF a.education_fund_balance >= university_cost_this_year
            THEN << [ source |-> <<"education_fund">>,
                      amount |-> university_cost_this_year ] >>
            ELSE (IF education_fund_used > 0
                  THEN << [ source |-> <<"education_fund">>,
                            amount |-> education_fund_used ] >>
                  ELSE <<>>)
                 \o << [ source |-> <<"cash">>, amount |-> shortfall ] >>
        after ==
            IF a.education_fund_balance >= university_cost_this_year
            THEN [a EXCEPT !.education_fund_balance = @ - university_cost_this_year]
            ELSE [a EXCEPT !.education_fund_balance = 0,
                           !.cash_balance = @ - shortfall]
    IN IF university_cost_this_year > 0
       THEN [ assets |-> after,
              cost |-> university_cost_this_year,
              payment_sources |-> payment_sources,
              entries |->
                [ i \in 1..Len(details) |->
                    [ type |-> <<"university", details[i].child, details[i].age>>,
                      amount |-> details[i].amount,
                      payment_sources |->
                        [ j \in 1..Len(payment_sources) |->
                            [ source |-> payment_sources[j].source,
                              amount |-> (payment_sources[j].amount
                                            * details[i].amount)
                                         \div university_cost_this_year ] ] ] ] ]
       ELSE [ assets |-> a, cost |-> 0, payment_sources |-> <<>>, entries |-> <<>> ]

\* retirement lump sum (net of tax) and corporate pension, credited to cash
ReceiveRetirementBenefit(p, a, age) ==
    LET rb == get_retirement_benefit(p, age)
        a1 == IF rb.lump_sum_net > 0
              THEN [a EXCEPT !.cash_balance = @ + rb.lump_sum_net]
              ELSE a
        a2 == IF rb.corporate_pension > 0
              THEN [a1 EXCEPT !.cash_balance = @ + rb.corporate_pension * 12]
              ELSE a1
    IN [ assets |-> a2,
         entries |->
           IF rb.lump_sum_net > 0
           THEN << [ type |-> <<"retirement_lump_sum">>,
                     amount |-> 0 - rb.lump_sum_net,
                     payment_sources |->
                       << [ source |-> <<"retirement">>,
                            amount |-> rb.lump_sum_net ] >> ] >>
           ELSE <<>> ]

\* sum of the custom-event fund balances of the active events
TotalCustomEventFunds(p, a) ==
    LET active == get_active_custom_events(p)
    IN SumSeq([ i \in 1..Len(active) |-> Get(a.custom_event_funds, active[i].id) ])

\* assets["total"] as recomputed at year end
LedgerTotal(p, a) ==
    a.nisa_tsumitate_balance + a.nisa_growth_balance + a.company_stock_balance
    + a.education_fund_balance + a.marriage_fund_balance
    + a.taxable_account_balance + a.cash_balance + TotalCustomEventFunds(p, a)

\* ------------------------------------------------- simulation driver
\* the year-end blocks with the custom events moved after the home purchase
YearEndOrderDividendFirst ==
    << "education", "stock_dividend", "marriage", "home_purchase",
       "custom_events", "university", "retirement" >>

\* the year-end blocks of simulate_30_years, in the order of the code
YearEndOrder ==
    << "education", "custom_events", "stock_dividend", "marriage",
       "home_purchase", "university", "retirement" >>

\* the block that follows a year-end block; "record" after the last one
NextYearEndStep(step) ==
    LET i == CHOOSE j \in 1..Len(YearEndOrder) : YearEndOrder[j] = step
    IN IF i = Len(YearEndOrder) THEN "record" ELSE YearEndOrder[i + 1]

VARIABLES
    plan,                \* the calculator's loader.plan_data
    calc_monthly_data,   \* self.monthly_data
    calc_yearly_data,    \* self.yearly_data
    pc,                  \* position of the running simulation
    sim_plan,            \* plan data of the calculator running the simulation
    age, month,          \* loop variables
    assets,
    nisa_tsumitate_total_contribution,
    nisa_growth_total_contribution,
    stock_price,
    year_start_assets,
    yearly_income, yearly_expenses, yearly_investment, yearly_cashflow,
    irregular_expenses,
    adjusted_cost,
    annual_dividend_total, annual_dividend_received,
    monthly_data,
    yearly_summary,
    month_flows,         \* NISA flows of each simulated month
    settled,             \* settlements of the current year end
    steps,               \* year-end blocks run so far in the current year
    mc_pc,               \* the projector being run: "none", "simple", "advanced"
    trial,               \* number of trials started by the running projector
    annual_returns,      \* the sampled returns of the current trial
    all_results,         \* results of the trials of the running projector
    mc_output,           \* value returned by the projector, <<>> before
    rule_first,          \* the first rule-resolution call made on the calculator
    rule_call,           \* the latest rule-resolution call made on it
    ret_pc,              \* simulate_retirement: "none", "year", "summary", "done"
    ret_age,             \* age of its loop
    ret_start_assets,    \* its start_assets argument
    ret_assets,          \* its assets dict
    retirement_data,     \* its yearly records
    ret_summary,         \* its summary, <<>> before
    ret_withdrawals,     \* deficit and ledger before and after each withdrawal
    scenarios,           \* rows of the table scenarios
    actual_records,      \* rows of the table actual_records
    db_result,           \* what the latest database handler returned
    scenario_latest,     \* latest successful save of each stored scenario name
    actual_latest,       \* latest successful save of each stored (year, month)
    api_call,            \* the latest plan handler called, with its arguments
    api_count,           \* number of plan handlers called
    plan_before          \* the stored plan when the latest plan handler was called

calc_vars == << plan, calc_monthly_data, calc_yearly_data >>
loop_vars == << sim_plan, age, month >>
ledger_vars == << assets, nisa_tsumitate_total_contribution,
                  nisa_growth_total_contribution, stock_price, year_start_assets >>
year_vars == << yearly_income, yearly_expenses, yearly_investment, yearly_cashflow,
                irregular_expenses, adjusted_cost, annual_dividend_total,
                annual_dividend_received >>
out_vars == << monthly_data, yearly_summary >>
hist_vars == << month_flows, settled, steps >>
sim_vars == << pc, loop_vars, ledger_vars, year_vars, out_vars, hist_vars >>
mc_vars == << mc_pc, trial, annual_returns, all_results, mc_output >>
rule_vars == << rule_first, rule_call >>
app_vars == << ret_pc, ret_age, ret_start_assets, ret_assets, retirement_data,
              ret_summary, ret_withdrawals, scenarios, actual_records,
              db_result, scenario_latest, actual_latest, api_call, api_count,
              plan_before >>
vars == << calc_vars, sim_vars, mc_vars, rule_vars, app_vars >>

\* state of a calculator that has not run yet
IdleSimulation(p) ==
    /\ pc = "idle"
    /\ sim_plan = p
    /\ age = 0 /\ month = 0
    /\ assets = InitialAssets(p)
    /\ nisa_tsumitate_total_contribution = 0
    /\ nisa_growth_total_contribution = 0
    /\ stock_price = 0
    /\ year_start_assets = InitialAssets(p)
    /\ yearly_income = 0 /\ yearly_expenses = 0
    /\ yearly_investment = 0 /\ yearly_cashflow = 0
    /\ irregular_expenses = <<>>
    /\ adjusted_cost = 0
    /\ annual_dividend_total = 0 /\ annual_dividend_received = 0
    /\ monthly_data = <<>>
    /\ yearly_summary = <<>>
    /\ month_flows = <<>>
    /\ settled = <<>>
    /\ steps = <<>>

\* a call record standing for "no call yet"
NoCall == [ fn |-> "none", arg |-> << >>, result |-> << >>, run_done |-> FALSE ]

\* no rule-resolution call has been made
NoRuleCall ==
    /\ rule_first = NoCall
    /\ rule_call = NoCall

\* nothing but the simulation and its projectors has been called
AppIdle ==
    /\ ret_pc = "none"
    /\ ret_age = 0
    /\ ret_start_assets = <<>>
    /\ ret_assets = <<>>
    /\ retirement_data = <<>>
    /\ ret_summary = <<>>
    /\ ret_withdrawals = <<>>
    /\ scenarios = {}
    /\ actual_records = {}
    /\ db_result = [ call |-> "none", success |-> TRUE ]
    /\ scenario_latest = {}
    /\ actual_latest = {}
    /\ api_call = [ fn |-> "none", error |-> FALSE, ages |-> {},
                    event |-> [ id |-> 0, name |-> "", age |-> 0, cost |-> 0 ],
                    scenarios |-> <<>> ]
    /\ api_count = 0
    /\ plan_before = plan

\* no Monte Carlo projector has been called
NoProjection ==
    /\ mc_pc = "none"
    /\ trial = 0
    /\ annual_returns = <<>>
    /\ all_results = <<>>
    /\ mc_output = <<>>

Init ==
    /\ plan \in Plans
    /\ calc_monthly_data = <<>>
    /\ calc_yearly_data = <<>>
    /\ IdleSimulation(plan)
    /\ NoProjection
    /\ NoRuleCall
    /\ AppIdle

\* simulate_30_years up to the first loop iteration
BeginRun(p) ==
    /\ sim_plan' = p
    /\ age' = p.basic_info.start_age
    /\ month' = 1
    /\ assets' = InitialAssets(p)
    /\ nisa_tsumitate_total_contribution' = 0
    /\ nisa_growth_total_contribution' = 0
    /\ stock_price' = p.investment_settings.company_stock.initial_price
    /\ year_start_assets' = InitialAssets(p)
    /\ yearly_income' = 0 /\ yearly_expenses' = 0
    /\ yearly_investment' = 0 /\ yearly_cashflow' = 0
    /\ irregular_expenses' = <<>>
    /\ adjusted_cost' = 0
    /\ annual_dividend_total' = 0 /\ annual_dividend_received' = 0
    /\ monthly_data' = <<>>
    /\ yearly_summary' = <<>>
    /\ month_flows' = <<>>
    /\ settled' = <<>>
    /\ steps' = <<>>

StartSimulation ==
    /\ pc = "idle"
    /\ ~StartRaises(plan)
    /\ pc' = IF plan.basic_info.start_age <= plan.basic_info.end_age
             THEN "month" ELSE "finish"
    /\ BeginRun(plan)
    /\ UNCHANGED << calc_vars, mc_vars >>
    /\ UNCHANGED << rule_vars, app_vars >>

\* one iteration of the month loop
MonthStep ==
    /\ pc = "month"
    /\ ~MonthRaises(sim_plan)
    /\ LET month_data == calculate_monthly_data(sim_plan, age, month, assets)
           upd == MonthlyAssetUpdate(sim_plan, assets,
                                     nisa_tsumitate_total_contribution,
                                     nisa_growth_total_contribution,
                                     stock_price, month_data, age)
           flows == NisaFlows(month_data.investment,
                              nisa_tsumitate_total_contribution,
                              nisa_growth_total_contribution,
                              sim_plan.investment_settings.nisa)
       IN /\ monthly_data' = Append(monthly_data, month_data)
          /\ yearly_income' = yearly_income + month_data.income.total
          /\ yearly_expenses' = yearly_expenses + month_data.expenses.total
          /\ yearly_investment' = yearly_investment + month_data.investment.total
          /\ yearly_cashflow' = yearly_cashflow + month_data.cashflow.monthly
          /\ assets' = upd
          /\ nisa_tsumitate_total_contribution' =
                nisa_tsumitate_total_contribution + flows.tsumitate_absorbed
          /\ nisa_growth_total_contribution' =
                nisa_growth_total_contribution + flows.growth_absorbed
          /\ month_flows' = Append(month_flows, flows)
    /\ IF month < MonthsPerYear
       THEN month' = month + 1 /\ pc' = "month"
       ELSE month' = month /\ pc' = YearEndOrder[1]
    /\ UNCHANGED << calc_vars, mc_vars, sim_plan, age, stock_price, year_start_assets,
                    irregular_expenses, adjusted_cost, annual_dividend_total,
                    annual_dividend_received, yearly_summary, settled, steps >>
    /\ UNCHANGED << rule_vars, app_vars >>

YearEndFrame ==
    UNCHANGED << calc_vars, mc_vars, loop_vars, nisa_tsumitate_total_contribution,
                 nisa_growth_total_contribution, year_start_assets,
                 yearly_income, yearly_expenses, yearly_investment,
                 yearly_cashflow, out_vars, month_flows >>

EducationStep ==
    /\ pc = "education"
    /\ pc' = NextYearEndStep("education")
    /\ steps' = Append(steps, "education")
    /\ LET r == PayEducationCosts(sim_plan, assets, age)
       IN /\ assets' = r.assets
          /\ adjusted_cost' = r.adjusted_cost
    /\ YearEndFrame
    /\ UNCHANGED << stock_price, irregular_expenses, annual_dividend_total,
                    annual_dividend_received, settled >>
    /\ UNCHANGED << rule_vars, app_vars >>

CustomEventsStep ==
    /\ pc = "custom_events"
    /\ pc' = NextYearEndStep("custom_events")
    /\ steps' = Append(steps, "custom_events")
    /\ LET r == SettleCustomEvents(assets, get_custom_events_for_age(sim_plan, age))
       IN /\ assets' = r.assets
          /\ irregular_expenses' = irregular_expenses \o r.entries
          /\ settled' = settled \o r.settled
    /\ YearEndFrame
    /\ UNCHANGED << stock_price, adjusted_cost, annual_dividend_total,
                    annual_dividend_received >>
    /\ UNCHANGED << rule_vars, app_vars >>

StockDividendStep ==
    /\ pc = "stock_dividend"
    /\ pc' = NextYearEndStep("stock_dividend")
    /\ steps' = Append(steps, "stock_dividend")
    /\ LET r == UpdateStockAndDividend(sim_plan, assets, stock_price, age)
       IN /\ assets' = r.assets
          /\ stock_price' = r.stock_price
          /\ annual_dividend_total' = r.annual_dividend_total
          /\ annual_dividend_received' = r.annual_dividend_received
    /\ YearEndFrame
    /\ UNCHANGED << irregular_expenses, adjusted_cost, settled >>
    /\ UNCHANGED << rule_vars, app_vars >>

MarriageStep ==
    /\ pc = "marriage"
    /\ ~MarriageRaises(sim_plan)
    /\ pc' = NextYearEndStep("marriage")
    /\ steps' = Append(steps, "marriage")
    /\ IF age = sim_plan.life_events.marriage.age
       THEN LET r == SettleMarriage(sim_plan, assets)
            IN /\ assets' = r.assets
               /\ irregular_expenses' = Append(irregular_expenses,
                     [ type |-> <<"marriage">>,
                       amount |-> sim_plan.life_events.marriage.cost,
                       payment_sources |-> r.payment_sources ])
               /\ settled' = Append(settled,
                     [ kind |-> "marriage",
                       amount |-> sim_plan.life_events.marriage.cost,
                       sources |-> r.payment_sources,
                       before |-> assets, after |-> r.assets ])
       ELSE UNCHANGED << assets, irregular_expenses, settled >>
    /\ YearEndFrame
    /\ UNCHANGED << stock_price, adjusted_cost, annual_dividend_total,
                    annual_dividend_received >>
    /\ UNCHANGED << rule_vars, app_vars >>

HomePurchaseStep ==
    /\ pc = "home_purchase"
    /\ ~HomePurchaseRaises(sim_plan)
    /\ pc' = NextYearEndStep("home_purchase")
    /\ steps' = Append(steps, "home_purchase")
    /\ IF age = sim_plan.life_events.home_purchase.age
       THEN LET r == SettleHomePurchase(sim_plan, assets)
                hp == sim_plan.life_events.home_purchase
            IN /\ assets' = r.assets
               /\ irregular_expenses' =
                     irregular_expenses
                     \o HomePurchaseEntries(sim_plan, r.payment_sources)
               /\ settled' = Append(settled,
                     [ kind |-> "home_purchase",
                       amount |-> hp.down_payment + hp.closing_costs,
                       sources |-> r.payment_sources,
                       before |-> assets, after |-> r.assets ])
       ELSE UNCHANGED << assets, irregular_expenses, settled >>
    /\ YearEndFrame
    /\ UNCHANGED << stock_price, adjusted_cost, annual_dividend_total,
                    annual_dividend_received >>
    /\ UNCHANGED << rule_vars, app_vars >>

UniversityStep ==
    /\ pc = "university"
    /\ pc' = NextYearEndStep("university")
    /\ steps' = Append(steps, "university")
    /\ LET r == SettleUniversity(sim_plan, assets, age)
       IN /\ assets' = r.assets
          /\ adjusted_cost' = adjusted_cost + r.cost
          /\ irregular_expenses' = irregular_expenses \o r.entries
          /\ settled' = IF r.cost > 0
                        THEN Append(settled,
                               [ kind |-> "university", amount |-> r.cost,
                                 sources |-> r.payment_sources,
                                 before |-> assets, after |-> r.assets ])
                        ELSE settled
    /\ YearEndFrame
    /\ UNCHANGED << stock_price, annual_dividend_total, annual_dividend_received >>
    /\ UNCHANGED << rule_vars, app_vars >>

RetirementStep ==
    /\ pc = "retirement"
    /\ pc' = NextYearEndStep("retirement")
    /\ steps' = Append(steps, "retirement")
    /\ LET r == ReceiveRetirementBenefit(sim_plan, assets, age)
       IN /\ assets' = r.assets
          /\ irregular_expenses' = irregular_expenses \o r.entries
    /\ YearEndFrame
    /\ UNCHANGED << stock_price, adjusted_cost, annual_dividend_total,
                    annual_dividend_received, settled >>
    /\ UNCHANGED << rule_vars, app_vars >>

\* the yearly record appended at the end of an age iteration
YearlyRecord(p, a, total) ==
    [ age |-> age,
      year |-> BaseYear + (age - p.basic_info.start_age),
      income_total |-> yearly_income,
      expenses_total |-> yearly_expenses,
      investment_total |-> yearly_investment,
      cashflow_annual |-> yearly_cashflow,
      assets_start |-> year_start_assets.total,
      assets_end |-> total,
      nisa_tsumitate |-> a.nisa_tsumitate_balance,
      nisa_growth |-> a.nisa_growth_balance,
      company_stock |-> a.company_stock_balance,
      education_fund |-> a.education_fund_balance,
      taxable_account |-> a.taxable_account_balance,
      cash |-> a.cash_balance,
      custom_event_funds |->
        LET active == get_active_custom_events(p)
        IN [ id \in {active[i].id : i \in 1..Len(active)} |->
               Get(a.custom_event_funds, id) ],
      education_cost_annual |-> adjusted_cost,
      dividend_total |-> annual_dividend_total,
      dividend_received |-> annual_dividend_received,
      irregular_expenses |-> irregular_expenses ]

\* the age loop stopping one age short
LastAgeExclusive(p) == p.basic_info.end_age - 1

\* the last value of range(start_age, end_age + 1)
LastAge(p) == p.basic_info.end_age

RecordYear ==
    /\ pc = "record"
    /\ LET total == LedgerTotal(sim_plan, assets)
           a == [assets EXCEPT !.total = total]
       IN /\ assets' = a
          /\ yearly_summary' = Append(yearly_summary, YearlyRecord(sim_plan, a, total))
          /\ year_start_assets' =
                IF age < LastAge(sim_plan) THEN a ELSE year_start_assets
    /\ IF age < LastAge(sim_plan)
       THEN /\ age' = age + 1
            /\ month' = 1
            /\ pc' = "month"
            /\ yearly_income' = 0 /\ yearly_expenses' = 0
            /\ yearly_investment' = 0 /\ yearly_cashflow' = 0
            /\ irregular_expenses' = <<>>
            /\ adjusted_cost' = 0
            /\ annual_dividend_total' = 0 /\ annual_dividend_received' = 0
            /\ settled' = <<>>
            /\ steps' = <<>>
       ELSE /\ pc' = "finish"
            /\ UNCHANGED << age, month, year_vars, settled, steps >>
    /\ UNCHANGED << calc_vars, mc_vars, sim_plan,
                    nisa_tsumitate_total_contribution,
                    nisa_growth_total_contribution, stock_price, monthly_data,
                    month_flows >>
    /\ UNCHANGED << rule_vars, app_vars >>

\* the results are published to the calculator and returned
FinishSimulation ==
    /\ pc = "finish"
    /\ mc_pc = "none"
    /\ pc' = "done"
    /\ calc_monthly_data' = monthly_data
    /\ calc_yearly_data' = yearly_summary
    /\ UNCHANGED << plan, loop_vars, ledger_vars, year_vars, out_vars, hist_vars,
                    mc_vars >>
    /\ UNCHANGED << rule_vars, app_vars >>

Next ==
    \/ StartSimulation
    \/ MonthStep
    \/ EducationStep
    \/ CustomEventsStep
    \/ StockDividendStep
    \/ MarriageStep
    \/ HomePurchaseStep
    \/ UniversityStep
    \/ RetirementStep
    \/ RecordYear
    \/ FinishSimulation

Spec == Init /\ [][Next]_vars

\* ------------------------------------------------- Monte Carlo projectors
\* plans of the projected calculators: start_age 64, so that a trial draws
\* 65 - start_age + 1 = 2 returns and the last simulated age falls back on
\* annual_returns[-1]
PlansMC ==
    { MakePlan(64, rb, "rising", lim, ret, FALSE, "cheap", ch[1], ch[2], cev) :
        rb \in BOOLEAN, lim \in LimitChoices, ret \in {"zero", "growth"},
        ch \in {<<50, 50>>, <<-19, -17>>}, cev \in {"none", "saved"} }

\* max(lo, min(hi, return_rate))
ClipReturn(return_rate, lo, hi) == Max(lo, Min(hi, return_rate))

\* the draws random.gauss(base_return, return_std) of one trial: every draw
\* on the mean, draws alternating far above and far below it, or every draw
\* far below it
GaussSamples(base_return, n) ==
    { [ i \in 1..n |-> base_return ],
      [ i \in 1..n |-> IF i % 2 = 1 THEN base_return + 640 ELSE base_return - 460 ],
      [ i \in 1..n |-> base_return - 460 ] }

\* number of returns drawn for a trial
NumSampledYears(p) == McSampleEndAge - p.basic_info.start_age + 1

\* the plan of the temporary calculator of a run_monte_carlo trial: the plan
\* read by a fresh DataLoader (taken to be the calculator's plan) with the
\* NISA and taxable-account expected returns replaced by the average draw
TempPlan(p, avg_return) ==
    [p EXCEPT !.investment_settings.nisa.expected_return = avg_return,
              !.investment_settings.taxable_account.expected_return = avg_return]

\* the assets dict of _simulate_with_variable_returns: no custom-event fund
VarInitialAssets(p) == [InitialAssets(p) EXCEPT !.custom_event_funds = EmptyDict]

\* annual_returns[year_index], or annual_returns[-1] past the end
YearReturn(returns, year_index) ==
    IF year_index < Len(returns) THEN returns[year_index + 1]
    ELSE returns[Len(returns)]

\* The monthly asset update of _simulate_with_variable_returns: every fund
\* grows at the year's return.
VarMonthlyAssetUpdate(p, a, tsumitate_total, growth_total, price, month_data, year_return) ==
    LET inv == month_data.investment
        is == p.investment_settings
        a1 == NisaDeposit(a, "nisa_tsumitate_balance", Get(inv, "nisa_tsumitate"),
                          tsumitate_total, is.nisa.tsumitate_limit,
                          year_return, year_return)
        a2 == NisaDeposit(a1, "nisa_growth_balance", Get(inv, "nisa_growth"),
                          growth_total, is.nisa.growth_limit,
                          year_return, year_return)
        a3 == BuyCompanyStock(a2, Get(inv, "company_stock"),
                              is.company_stock.incentive_rate, price)
        a4 == Deposit(a3, "education_fund_balance", Get(inv, "education_fund"),
                      year_return)
        a5 == Deposit(a4, "marriage_fund_balance", Get(inv, "marriage_fund"),
                      year_return)
        a6 == AddCash(a5, Get(inv, "child_preparation_fund"))
        a7 == AddCash(a6, Get(inv, "emergency_fund"))
        a8 == Deposit(a7, "taxable_account_balance",
                      Get(inv, "high_dividend_stocks"), year_return)
    IN [a8 EXCEPT !.cash_balance = @ + month_data.cashflow.monthly]

\* college cost of one child: the configured tuition, inflation-adjusted,
\* from the education fund first and the shortfall from cash
VarPayCollege(p, a, cur_age, child_age) ==
    LET ec == GetOr(p, "education_costs_per_child", EmptyDict)
        annual_college_cost == Get(GetOr(ec, "age_19_22", EmptyDict), "tuition")
        adjusted == apply_inflation(p, annual_college_cost,
                                    cur_age - p.basic_info.start_age,
                                    Get(p.inflation_settings, "education_rate"))
    IN IF ~(19 <= child_age /\ child_age <= 22) THEN a
       ELSE IF a.education_fund_balance >= adjusted
       THEN [a EXCEPT !.education_fund_balance = @ - adjusted]
       ELSE [a EXCEPT !.education_fund_balance = 0,
                      !.cash_balance = @ - (adjusted - a.education_fund_balance)]

\* assets["total"] as recomputed at a year end of
\* _simulate_with_variable_returns
VarLedgerTotal(a) ==
    a.nisa_tsumitate_balance + a.nisa_growth_balance + a.company_stock_balance
    + a.education_fund_balance + a.marriage_fund_balance
    + a.taxable_account_balance + a.cash_balance

\* final_assets of a trial: yearly[-1]["assets_end"] if yearly else 0
FinalAssets(yearly) == IF yearly = <<>> THEN 0 ELSE yearly[Len(yearly)].assets_end

\* final_assets_list[int(num_simulations * fraction)]
Percentile(sorted, percent) == sorted[(Len(sorted) * percent) \div 100 + 1]

\* the statistics returned by a projector (std is not carried)
McSummary(results) ==
    LET finals == [ i \in 1..Len(results) |-> results[i].final_assets ]
        final_assets_list == SortSeq(finals, LAMBDA x, y : x < y)
        n == Len(results)
        reached(target) ==
            (Cardinality({i \in 1..n : finals[i] >= target}) * 100) \div n
    IN [ num_simulations |-> n,
         mean |-> SumSeq(final_assets_list) \div n,
         median |-> Percentile(final_assets_list, 50),
         min |-> final_assets_list[1],
         max |-> final_assets_list[n],
         percentiles |-> [ p10 |-> Percentile(final_assets_list, 10),
                           p25 |-> Percentile(final_assets_list, 25),
                           p50 |-> Percentile(final_assets_list, 50),
                           p75 |-> Percentile(final_assets_list, 75),
                           p90 |-> Percentile(final_assets_list, 90) ],
         target_probabilities |-> [ t50m |-> reached(50000),
                                    t70m |-> reached(70000),
                                    t100m |-> reached(100000) ],
         distribution |-> final_assets_list ]

\* run_monte_carlo is called on the calculator
RunMonteCarlo ==
    /\ pc = "done" /\ mc_pc = "none" /\ mc_output = <<>>
    /\ mc_pc' = "simple"
    /\ pc' = "sample"
    /\ trial' = 0
    /\ all_results' = <<>>
    /\ UNCHANGED << calc_vars, loop_vars, ledger_vars, year_vars, out_vars,
                    hist_vars, annual_returns, mc_output >>
    /\ UNCHANGED << rule_vars, app_vars >>

\* the same trial substituting the rates in the plan data of the calling
\* calculator's own loader
SimpleTrialStartShared ==
    /\ pc = "sample" /\ mc_pc = "simple" /\ trial < NumTrials
    /\ \E draws \in GaussSamples(plan.investment_settings.nisa.expected_return,
                                 NumSampledYears(plan)) :
         LET returns == [ i \in 1..Len(draws) |-> ClipReturn(draws[i], -300, 500) ]
             avg_return == SumSeq(returns) \div Len(returns)
             temp == TempPlan(plan, avg_return)
         IN /\ annual_returns' = returns
            /\ BeginRun(temp)
            /\ plan' = temp
            /\ pc' = IF temp.basic_info.start_age <= temp.basic_info.end_age
                     THEN "month" ELSE "finish"
    /\ trial' = trial + 1
    /\ UNCHANGED << calc_monthly_data, calc_yearly_data, mc_pc, all_results,
                    mc_output >>
    /\ UNCHANGED << rule_vars, app_vars >>

\* one trial of run_monte_carlo up to the call of simulate_30_years on the
\* temporary calculator
SimpleTrialStart ==
    /\ pc = "sample" /\ mc_pc = "simple" /\ trial < NumTrials
    /\ \E draws \in GaussSamples(plan.investment_settings.nisa.expected_return,
                                 NumSampledYears(plan)) :
         LET returns == [ i \in 1..Len(draws) |-> ClipReturn(draws[i], -300, 500) ]
             avg_return == SumSeq(returns) \div Len(returns)
             temp == TempPlan(plan, avg_return)
         IN /\ annual_returns' = returns
            /\ BeginRun(temp)
            /\ pc' = IF temp.basic_info.start_age <= temp.basic_info.end_age
                     THEN "month" ELSE "finish"
    /\ trial' = trial + 1
    /\ UNCHANGED << calc_vars, mc_pc, all_results, mc_output >>
    /\ UNCHANGED << rule_vars, app_vars >>

\* the trial's simulation has returned: its final assets are recorded
SimpleTrialEnd ==
    /\ pc = "finish" /\ mc_pc = "simple"
    /\ all_results' = Append(all_results,
          [ simulation_id |-> trial,
            final_assets |-> FinalAssets(yearly_summary),
            avg_return |-> sim_plan.investment_settings.nisa.expected_return ])
    /\ pc' = "sample"
    /\ UNCHANGED << calc_vars, loop_vars, ledger_vars, year_vars, out_vars,
                    hist_vars, mc_pc, trial, annual_returns, mc_output >>
    /\ UNCHANGED << rule_vars, app_vars >>

\* run_monte_carlo_advanced is called on the calculator
RunMonteCarloAdvanced ==
    /\ pc = "done" /\ mc_pc = "none" /\ mc_output = <<>>
    /\ mc_pc' = "advanced"
    /\ pc' = "sample"
    /\ trial' = 0
    /\ all_results' = <<>>
    /\ UNCHANGED << calc_vars, loop_vars, ledger_vars, year_vars, out_vars,
                    hist_vars, annual_returns, mc_output >>
    /\ UNCHANGED << rule_vars, app_vars >>

\* one trial of run_monte_carlo_advanced up to the first loop iteration of
\* _simulate_with_variable_returns
AdvancedTrialStart ==
    /\ pc = "sample" /\ mc_pc = "advanced" /\ trial < NumTrials
    /\ \E draws \in GaussSamples(plan.investment_settings.nisa.expected_return,
                                 NumSampledYears(plan)) :
         annual_returns' = [ i \in 1..Len(draws) |-> ClipReturn(draws[i], -400, 600) ]
    /\ trial' = trial + 1
    /\ pc' = IF plan.basic_info.start_age <= plan.basic_info.end_age
             THEN "v_month" ELSE "v_finish"
    /\ sim_plan' = plan
    /\ age' = plan.basic_info.start_age
    /\ month' = 1
    /\ assets' = VarInitialAssets(plan)
    /\ nisa_tsumitate_total_contribution' = 0
    /\ nisa_growth_total_contribution' = 0
    /\ stock_price' = plan.investment_settings.company_stock.initial_price
    /\ year_start_assets' = VarInitialAssets(plan)
    /\ yearly_income' = 0 /\ yearly_expenses' = 0
    /\ yearly_investment' = 0 /\ yearly_cashflow' = 0
    /\ yearly_summary' = <<>>
    /\ month_flows' = <<>>
    /\ UNCHANGED << calc_vars, irregular_expenses, adjusted_cost,
                    annual_dividend_total, annual_dividend_received, monthly_data,
                    settled, steps, mc_pc, all_results, mc_output >>
    /\ UNCHANGED << rule_vars, app_vars >>

\* one iteration of the month loop of _simulate_with_variable_returns
VarMonthStep ==
    /\ pc = "v_month"
    /\ LET year_return == YearReturn(annual_returns,
                                     age - sim_plan.basic_info.start_age)
           month_data == calculate_monthly_data(sim_plan, age, month, assets)
           upd == VarMonthlyAssetUpdate(sim_plan, assets,
                                        nisa_tsumitate_total_contribution,
                                        nisa_growth_total_contribution,
                                        stock_price, month_data, year_return)
           flows == NisaFlows(month_data.investment,
                              nisa_tsumitate_total_contribution,
                              nisa_growth_total_contribution,
                              sim_plan.investment_settings.nisa)
       IN /\ yearly_income' = yearly_income + month_data.income.total
          /\ yearly_expenses' = yearly_expenses + month_data.expenses.total
          /\ yearly_investment' = yearly_investment + month_data.investment.total
          /\ yearly_cashflow' = yearly_cashflow + month_data.cashflow.monthly
          /\ assets' = upd
          /\ nisa_tsumitate_total_contribution' =
                nisa_tsumitate_total_contribution + flows.tsumitate_absorbed
          /\ nisa_growth_total_contribution' =
                nisa_growth_total_contribution + flows.growth_absorbed
          /\ month_flows' = Append(month_flows, flows)
    /\ IF month < MonthsPerYear
       THEN month' = month + 1 /\ pc' = "v_month"
       ELSE month' = month /\ pc' = "v_education"
    /\ UNCHANGED << calc_vars, mc_vars, sim_plan, age, stock_price,
                    year_start_assets, irregular_expenses, adjusted_cost,
                    annual_dividend_total, annual_dividend_received, out_vars,
                    settled, steps >>
    /\ UNCHANGED << rule_vars, app_vars >>

\* what the year-end blocks of _simulate_with_variable_returns leave alone
VarYearEndFrame ==
    UNCHANGED << calc_vars, mc_vars, loop_vars,
                 nisa_tsumitate_total_contribution,
                 nisa_growth_total_contribution, year_start_assets, year_vars,
                 out_vars, hist_vars >>

\* education costs of the year, paid from cash
VarEducationStep ==
    /\ pc = "v_education"
    /\ pc' = "v_stock_dividend"
    /\ assets' = PayEducationCosts(sim_plan, assets, age).assets
    /\ stock_price' = stock_price
    /\ VarYearEndFrame
    /\ UNCHANGED << rule_vars, app_vars >>

\* share price update, dividend and reinvestment
VarStockDividendStep ==
    /\ pc = "v_stock_dividend"
    /\ pc' = "v_marriage"
    /\ LET r == UpdateStockAndDividend(sim_plan, assets, stock_price, age)
       IN /\ assets' = r.assets
          /\ stock_price' = r.stock_price
    /\ VarYearEndFrame
    /\ UNCHANGED << rule_vars, app_vars >>

VarMarriageStep ==
    /\ pc = "v_marriage"
    /\ pc' = "v_home_purchase"
    /\ assets' = IF age = sim_plan.life_events.marriage.age
                 THEN SettleMarriage(sim_plan, assets).assets
                 ELSE assets
    /\ stock_price' = stock_price
    /\ VarYearEndFrame
    /\ UNCHANGED << rule_vars, app_vars >>

VarHomePurchaseStep ==
    /\ pc = "v_home_purchase"
    /\ pc' = "v_college"
    /\ assets' = IF age = sim_plan.life_events.home_purchase.age
                 THEN SettleHomePurchase(sim_plan, assets).assets
                 ELSE assets
    /\ stock_price' = stock_price
    /\ VarYearEndFrame
    /\ UNCHANGED << rule_vars, app_vars >>

\* college costs of the first child, then of the second
VarCollegeStep ==
    /\ pc = "v_college"
    /\ pc' = "v_record"
    /\ assets' =
          VarPayCollege(sim_plan,
              VarPayCollege(sim_plan, assets, age,
                            age - sim_plan.basic_info.first_child_birth_age),
              age, age - sim_plan.basic_info.second_child_birth_age)
    /\ stock_price' = stock_price
    /\ VarYearEndFrame
    /\ UNCHANGED << rule_vars, app_vars >>

\* the total, the yearly record and the step to the next age
VarRecordYear ==
    /\ pc = "v_record"
    /\ LET total == VarLedgerTotal(assets)
       IN /\ assets' = [assets EXCEPT !.total = total]
          /\ yearly_summary' = Append(yearly_summary,
                [ age |-> age,
                  year |-> BaseYear + (age - sim_plan.basic_info.start_age),
                  income_total |-> yearly_income,
                  expenses_total |-> yearly_expenses,
                  investment_total |-> yearly_investment,
                  cashflow_annual |-> yearly_cashflow,
                  assets_start |-> year_start_assets.total,
                  assets_end |-> total,
                  return_rate |-> YearReturn(annual_returns,
                                      age - sim_plan.basic_info.start_age) ])
          /\ year_start_assets' =
                IF age < sim_plan.basic_info.end_age
                THEN [assets EXCEPT !.total = total]
                ELSE year_start_assets
    /\ IF age < sim_plan.basic_info.end_age
       THEN /\ age' = age + 1
            /\ month' = 1
            /\ pc' = "v_month"
            /\ yearly_income' = 0 /\ yearly_expenses' = 0
            /\ yearly_investment' = 0 /\ yearly_cashflow' = 0
       ELSE /\ pc' = "v_finish"
            /\ UNCHANGED << age, month, yearly_income, yearly_expenses,
                            yearly_investment, yearly_cashflow >>
    /\ UNCHANGED << calc_vars, mc_vars, sim_plan,
                    nisa_tsumitate_total_contribution,
                    nisa_growth_total_contribution, stock_price,
                    irregular_expenses, adjusted_cost, annual_dividend_total,
                    annual_dividend_received, monthly_data, hist_vars >>
    /\ UNCHANGED << rule_vars, app_vars >>

\* _simulate_with_variable_returns has returned: its final assets are recorded
AdvancedTrialEnd ==
    /\ pc = "v_finish" /\ mc_pc = "advanced"
    /\ all_results' = Append(all_results,
          [ simulation_id |-> trial,
            final_assets |-> FinalAssets(yearly_summary),
            returns |-> annual_returns ])
    /\ pc' = "sample"
    /\ UNCHANGED << calc_vars, loop_vars, ledger_vars, year_vars, out_vars,
                    hist_vars, mc_pc, trial, annual_returns, mc_output >>
    /\ UNCHANGED << rule_vars, app_vars >>

\* all trials are done: the statistics are computed and returned
EndMonteCarlo ==
    /\ pc = "sample" /\ mc_pc # "none" /\ trial >= NumTrials
    /\ mc_output' = << [ kind |-> mc_pc,
                         summary |-> McSummary(all_results),
                         all_results |-> all_results ] >>
    /\ mc_pc' = "none"
    /\ pc' = "done"
    /\ UNCHANGED << calc_vars, loop_vars, ledger_vars, year_vars, out_vars,
                    hist_vars, trial, annual_returns, all_results >>
    /\ UNCHANGED << rule_vars, app_vars >>

InitMC ==
    /\ plan \in PlansMC
    /\ calc_monthly_data = <<>>
    /\ calc_yearly_data = <<>>
    /\ IdleSimulation(plan)
    /\ NoProjection
    /\ NoRuleCall
    /\ AppIdle

NextMC ==
    \/ Next
    \/ RunMonteCarlo
    \/ SimpleTrialStart
    \/ SimpleTrialEnd
    \/ RunMonteCarloAdvanced
    \/ AdvancedTrialStart
    \/ VarMonthStep
    \/ VarEducationStep
    \/ VarStockDividendStep
    \/ VarMarriageStep
    \/ VarHomePurchaseStep
    \/ VarCollegeStep
    \/ VarRecordYear
    \/ AdvancedTrialEnd
    \/ EndMonteCarlo

SpecMC == InitMC /\ [][NextMC]_vars

\* ------------------------------------------------- rule-resolution calls
\* Calls made on the calculator between simulation runs: the take-home
\* computation, the age lookups, and the salary table of the editing view.
\* ages asked for: below, inside and above the configured bands and anchors
RuleAges == {20, 23, 26, 27, 28, 45, 48, 49, 50, 56, 65, 70}
\* gross annual incomes on either side of the three band breakpoints
GrossChoices == {1920, 5496, 5508, 7992, 8004, 9996, 10008, 12000}
\* annual housing allowance passed with the gross income
AllowanceChoices == {0, 240}
\* start ages of the plans the calls are made on
RuleStartAges == {25, 44, 64}

PlansRules ==
    { MakePlan(sa, FALSE, sal, "loose", "zero", FALSE, "cheap", 50, 50, "none") :
        sa \in RuleStartAges, sal \in SalaryChoices }

\* the rows returned by get_full_salary_table
get_full_salary_table(p) ==
    LET start_age == GetOr(p.basic_info, "start_age", 25)
        end_age == GetOr(p.basic_info, "end_age", 65)
        progression == p.income_progression
        anchor_ages == SortedSeq(DOMAIN progression)
        row(at_age) ==
            LET applicable == ScanAnchors(anchor_ages, at_age, anchor_ages[1])
                sd == progression[applicable]
            IN [ age |-> at_age,
                 base_salary |-> sd.base_salary,
                 bonus_months |-> sd.bonus_months,
                 annual_income |-> sd.base_salary * (12 + sd.bonus_months),
                 is_anchor |-> at_age \in DOMAIN progression ]
    IN [ i \in 1..(end_age - start_age + 1) |-> row(start_age + i - 1) ]

\* the record of a call, with whether the simulation had run when it was made
Called(c) ==
    [ fn |-> c.fn, arg |-> c.arg, result |-> c.result, run_done |-> pc = "done" ]

\* A call returns before or after the simulation run of the calculator.  The
\* calls of a session are followed in pairs: the first call, made before or
\* after the run, and one later call made after the run.
MakeCall(c) ==
    /\ IF rule_first.fn = "none"
       THEN pc \in {"idle", "done"}
       ELSE /\ pc = "done"
            /\ rule_call.fn = rule_first.fn
            /\ rule_call.arg = rule_first.arg
    /\ mc_pc = "none"
    /\ rule_call' = Called(c)
    /\ rule_first' = IF rule_first.fn = "none" THEN Called(c) ELSE rule_first
    /\ UNCHANGED << calc_vars, sim_vars, mc_vars, app_vars >>

CallTakehome ==
    \E gross_annual \in GrossChoices, housing_allowance \in AllowanceChoices :
        MakeCall([ fn |-> "calculate_takehome",
                   arg |-> << gross_annual, housing_allowance >>,
                   result |-> calculate_takehome(plan, gross_annual,
                                                 housing_allowance) ])

CallSalary ==
    \E at_age \in RuleAges :
        MakeCall([ fn |-> "get_salary_for_age", arg |-> << at_age >>,
                   result |-> get_salary_for_age(plan, at_age) ])

CallSpouseIncome ==
    \E at_age \in RuleAges :
        MakeCall([ fn |-> "get_spouse_income_for_age", arg |-> << at_age >>,
                   result |-> get_spouse_income_for_age(plan, at_age) ])

CallHousingAllowance ==
    \E at_age \in RuleAges :
        MakeCall([ fn |-> "get_housing_allowance_for_age", arg |-> << at_age >>,
                   result |-> get_housing_allowance_for_age(plan, at_age) ])

CallHousingCosts ==
    \E at_age \in RuleAges :
        MakeCall([ fn |-> "get_housing_costs_for_age", arg |-> << at_age >>,
                   result |-> get_housing_costs_for_age(plan, at_age) ])

\* the phase lookup resolving, after a run, the age the run stopped at
CallPhaseOfLastRun ==
    \E at_age \in RuleAges :
        MakeCall([ fn |-> "get_phase_for_age", arg |-> << at_age >>,
                   result |-> get_phase_for_age(plan, IF pc = "done" THEN age
                                                      ELSE at_age) ])

CallPhase ==
    \E at_age \in RuleAges :
        MakeCall([ fn |-> "get_phase_for_age", arg |-> << at_age >>,
                   result |-> get_phase_for_age(plan, at_age) ])

CallFullSalaryTable ==
    MakeCall([ fn |-> "get_full_salary_table", arg |-> << >>,
               result |-> get_full_salary_table(plan) ])

InitRules ==
    /\ plan \in PlansRules
    /\ calc_monthly_data = <<>>
    /\ calc_yearly_data = <<>>
    /\ IdleSimulation(plan)
    /\ NoProjection
    /\ NoRuleCall
    /\ AppIdle

NextRules ==
    \/ Next
    \/ CallTakehome
    \/ CallSalary
    \/ CallSpouseIncome
    \/ CallHousingAllowance
    \/ CallHousingCosts
    \/ CallPhase
    \/ CallFullSalaryTable

SpecRules == InitRules /\ [][NextRules]_vars

\* ------------------------------------------------- configuration defects
\* simulate_30_years on plans that omit sections of the configuration
\* a dict without some of its keys
Without(d, keys) == [ k \in DOMAIN d \ keys |-> d[k] ]

\* what a plan omits: nothing, one optional section, all of them, or an age
\* boundary
OmissionChoices ==
    { "none", "marriage", "home_purchase", "children", "custom_events",
      "optional", "start_age", "end_age" }

OptionalBasicInfo == {"first_child_birth_age", "second_child_birth_age"}

Omit(p, what) ==
    CASE what = "none" -> p
      [] what = "marriage" ->
           [p EXCEPT !.life_events = Without(@, {"marriage"})]
      [] what = "home_purchase" ->
           [p EXCEPT !.life_events = Without(@, {"home_purchase"})]
      [] what = "children" ->
           [p EXCEPT !.basic_info = Without(@, OptionalBasicInfo)]
      [] what = "custom_events" -> Without(p, {"custom_large_purchase_events"})
      [] what = "optional" ->
           [ Without(p, {"custom_large_purchase_events"})
               EXCEPT !.life_events = Without(@, {"marriage", "home_purchase"}),
                      !.basic_info = Without(@, OptionalBasicInfo) ]
      [] what = "start_age" ->
           [p EXCEPT !.basic_info = Without(@, {"start_age"})]
      [] what = "end_age" ->
           [p EXCEPT !.basic_info = Without(@, {"end_age"})]

PlansErr ==
    { Omit(MakePlan(44, FALSE, sal, "loose", "zero", FALSE, "cheap", -19, -17,
                    "saved"), what) :
        sal \in SalaryChoices, what \in OmissionChoices }

\* a KeyError leaves simulate_30_years: its locals are dropped and nothing
\* is assigned to the calculator
Raise ==
    /\ pc' = "raised"
    /\ UNCHANGED << calc_vars, loop_vars, ledger_vars, year_vars, out_vars,
                    hist_vars, mc_vars, rule_vars, app_vars >>

RaiseAtStart ==
    /\ pc = "idle"
    /\ StartRaises(plan)
    /\ Raise

RaiseInMonth ==
    /\ pc = "month"
    /\ MonthRaises(sim_plan)
    /\ Raise

\* the failing run assigning what it had computed to the calculator
RaiseAtMarriagePublishing ==
    /\ pc = "marriage"
    /\ MarriageRaises(sim_plan)
    /\ pc' = "raised"
    /\ calc_monthly_data' = monthly_data
    /\ calc_yearly_data' = yearly_summary
    /\ UNCHANGED << plan, loop_vars, ledger_vars, year_vars, out_vars,
                    hist_vars, mc_vars, rule_vars, app_vars >>

RaiseAtMarriage ==
    /\ pc = "marriage"
    /\ MarriageRaises(sim_plan)
    /\ Raise

RaiseAtHomePurchase ==
    /\ pc = "home_purchase"
    /\ HomePurchaseRaises(sim_plan)
    /\ Raise

InitErr ==
    /\ plan \in PlansErr
    /\ calc_monthly_data = <<>>
    /\ calc_yearly_data = <<>>
    /\ IdleSimulation(plan)
    /\ NoProjection
    /\ NoRuleCall
    /\ AppIdle

NextErr ==
    \/ Next
    \/ RaiseAtStart
    \/ RaiseInMonth
    \/ RaiseAtMarriage
    \/ RaiseAtHomePurchase

SpecErr == InitErr /\ [][NextErr]_vars

\* ------------------------------------------------- retirement simulation
\* simulate_retirement called with start_assets given
\* number of ages of range(65, 91) that are followed
RetirementYears == 3
RetirementStartAge == 65
\* share of a dividend left after the 20.315% tax, in 1/100000
DividendNetRate == 79685
\* total under which the assets count as depleted
DepletionFloor == 1000

\* a deficit taken from cash, then from the taxable account, NISA growth,
\* NISA tsumitate and company stock
WithdrawDeficit(a, withdrawal) ==
    IF a.cash_balance >= withdrawal
    THEN [a EXCEPT !.cash_balance = @ - withdrawal]
    ELSE
    LET a0 == [a EXCEPT !.cash_balance = 0]
        r1 == withdrawal - a.cash_balance
    IN IF a.taxable_account_balance >= r1
       THEN [a0 EXCEPT !.taxable_account_balance = @ - r1]
       ELSE IF a.taxable_account_balance > 0
       THEN
       LET a1 == [a0 EXCEPT !.taxable_account_balance = 0]
           r2 == r1 - a.taxable_account_balance
       IN IF a.nisa_growth_balance >= r2
          THEN [a1 EXCEPT !.nisa_growth_balance = @ - r2]
          ELSE IF a.nisa_growth_balance > 0
          THEN
          LET a2 == [a1 EXCEPT !.nisa_growth_balance = 0]
              r3 == r2 - a.nisa_growth_balance
          IN IF a.nisa_tsumitate_balance >= r3
             THEN [a2 EXCEPT !.nisa_tsumitate_balance = @ - r3]
             ELSE IF a.nisa_tsumitate_balance > 0
             THEN
             LET a3 == [a2 EXCEPT !.nisa_tsumitate_balance = 0]
                 r4 == r3 - a.nisa_tsumitate_balance
             IN IF a.company_stock_balance >= r4
                THEN [a3 EXCEPT !.company_stock_balance = @ - r4]
                ELSE [a3 EXCEPT !.company_stock_balance = Max(0, @ - r4)]
             ELSE a2
          ELSE a1
       ELSE a0

StartRetirement ==
    /\ ret_pc = "none"
    /\ \E cash \in {-300, 0, 500, 5000}, taxable \in {0, 400, 5000},
          growth \in {0, 300}, tsumitate \in {0, 300}, stock \in {0, 5000} :
          /\ ret_start_assets' =
                [ nisa_tsumitate_balance |-> tsumitate,
                  nisa_growth_balance |-> growth,
                  company_stock_balance |-> stock,
                  taxable_account_balance |-> taxable,
                  cash_balance |-> cash,
                  total |-> tsumitate + growth + stock + taxable + cash ]
          /\ ret_assets' = ret_start_assets'
    /\ ret_pc' = "year"
    /\ ret_age' = RetirementStartAge
    /\ retirement_data' = <<>>
    /\ ret_withdrawals' = <<>>
    /\ UNCHANGED << calc_vars, sim_vars, mc_vars, rule_vars, api_call,
                    api_count, plan_before, ret_summary,
                    scenarios, actual_records, db_result, scenario_latest,
                    actual_latest >>

\* one pass of the age loop
RetirementYear ==
    /\ ret_pc = "year"
    /\ LET years_from_retirement == ret_age - RetirementStartAge
           inflation_rate == GetOr(plan.inflation_settings,
                                   "living_expenses_rate", 20)
           factor == InflationFactor(inflation_rate, years_from_retirement)
           adjusted_living == MulRate(250, factor)
           inflated_medical == MulRate(20, factor)
           adjusted_medical == IF ret_age >= 75
                               THEN (inflated_medical * 3) \div 2
                               ELSE inflated_medical
           adjusted_leisure == MulRate(50, factor)
           annual_pension ==
               (GetOr(plan.pension, "monthly_amount", 180) + 100) * 12
           annual_dividend ==
               ((MulRate(ret_assets.company_stock_balance,
                         plan.investment_settings.company_stock.dividend_yield)
                 + MulRate(ret_assets.taxable_account_balance,
                           plan.investment_settings.taxable_account.dividend_yield))
                * DividendNetRate) \div 100000
           total_income == annual_pension + annual_dividend
           annual_living ==
               (adjusted_living + adjusted_medical + adjusted_leisure) * 12
           property_tax == 150
           maintenance == MulRate(200, factor)
           annual_expenses == annual_living + property_tax + maintenance
           annual_cashflow == total_income - annual_expenses
           settled_assets ==
               IF annual_cashflow < 0
               THEN WithdrawDeficit(ret_assets, -annual_cashflow)
               ELSE [ret_assets EXCEPT !.cash_balance = @ + annual_cashflow]
           investment_return == plan.investment_settings.nisa.expected_return
           grown[b \in Int] ==
               LET after[n \in 0..12] ==
                       IF n = 0 THEN b ELSE Compound(after[n - 1], investment_return)
               IN after[12]
           a == [settled_assets EXCEPT
                    !.nisa_tsumitate_balance = grown[@],
                    !.nisa_growth_balance = grown[@],
                    !.company_stock_balance = grown[@],
                    !.taxable_account_balance = grown[@]]
           total_assets == a.nisa_tsumitate_balance + a.nisa_growth_balance
                           + a.company_stock_balance
                           + a.taxable_account_balance + a.cash_balance
       IN /\ ret_assets' = a
          /\ retirement_data' = Append(retirement_data,
                [ age |-> ret_age,
                  year |-> 2065 + (ret_age - RetirementStartAge),
                  income |-> [ pension |-> annual_pension,
                               dividend |-> annual_dividend,
                               total |-> total_income ],
                  expenses |-> [ living |-> annual_living,
                                 property_tax |-> property_tax,
                                 maintenance |-> maintenance,
                                 total |-> annual_expenses ],
                  cashflow |-> annual_cashflow,
                  assets |-> [ nisa_tsumitate |-> a.nisa_tsumitate_balance,
                               nisa_growth |-> a.nisa_growth_balance,
                               company_stock |-> a.company_stock_balance,
                               taxable_account |-> a.taxable_account_balance,
                               cash |-> a.cash_balance,
                               total |-> total_assets ],
                  withdrawal |-> IF annual_cashflow < 0 THEN -annual_cashflow
                                 ELSE 0 ])
          /\ ret_withdrawals' =
                IF annual_cashflow < 0
                THEN Append(ret_withdrawals,
                            [ deficit |-> -annual_cashflow,
                              before |-> ret_assets,
                              after |-> settled_assets ])
                ELSE ret_withdrawals
    /\ IF ret_age < RetirementStartAge + RetirementYears - 1
       THEN ret_age' = ret_age + 1 /\ ret_pc' = "year"
       ELSE ret_age' = ret_age /\ ret_pc' = "summary"
    /\ UNCHANGED << calc_vars, sim_vars, mc_vars, rule_vars, api_call,
                    api_count, plan_before, ret_start_assets,
                    ret_summary, scenarios, actual_records, db_result,
                    scenario_latest, actual_latest >>

\* the summary computed after the loop; both are returned
FinishRetirement ==
    /\ ret_pc = "summary"
    /\ ret_pc' = "done"
    /\ LET n == Len(retirement_data)
           depleted == { i \in 1..n :
                           retirement_data[i].assets.total < DepletionFloor }
           depletion_age == IF depleted = {} THEN -1
                            ELSE retirement_data[SetMin(depleted)].age
       IN ret_summary' =
            [ start_assets |-> ret_start_assets.total,
              final_assets |-> IF n > 0 THEN retirement_data[n].assets.total
                               ELSE 0,
              total_pension |->
                  SumSeq([ i \in 1..n |-> retirement_data[i].income.pension ]),
              total_dividend |->
                  SumSeq([ i \in 1..n |-> retirement_data[i].income.dividend ]),
              total_withdrawal |->
                  SumSeq([ i \in 1..n |-> retirement_data[i].withdrawal ]),
              depletion_age |-> depletion_age,
              assets_survived |-> depleted = {} ]
    /\ UNCHANGED << calc_vars, sim_vars, mc_vars, rule_vars, api_call,
                    api_count, plan_before, ret_age,
                    ret_start_assets, ret_assets, retirement_data,
                    ret_withdrawals, scenarios, actual_records, db_result,
                    scenario_latest, actual_latest >>

\* ------------------------------------------------- application
InitApp ==
    /\ plan \in
         { [ MakePlan(64, FALSE, "single", "loose", ret, FALSE, "none", 50, 50,
                      "none")
               EXCEPT !.investment_settings.taxable_account =
                        [ expected_return |-> @.expected_return,
                          dividend_yield |-> 30 ] ] :
             ret \in {"zero", "growth"} }
    /\ calc_monthly_data = <<>>
    /\ calc_yearly_data = <<>>
    /\ IdleSimulation(plan)
    /\ NoProjection
    /\ NoRuleCall
    /\ AppIdle

NextApp ==
    \/ StartRetirement
    \/ RetirementYear
    \/ FinishRetirement

SpecApp == InitApp /\ [][NextApp]_vars

\* ------------------------------------------------- scenario database
\* The tables of ScenarioDatabase as sets of rows; the id and timestamp
\* columns are left out.  A text column holding json.dumps(v) is the record
\* [json |-> v], which json.loads reads back.  A scenario name is its
\* characters, for a value that is a str.
\* longest scenario name accepted
MaxNameLen == 100

\* save_scenario inserting a row without looking for an existing one
SaveScenarioAlwaysInsert ==
    /\ \E text \in { <<"a">>, <<"b">> },
          payload \in { [ settings |-> [ spouse_income |-> "none" ],
                          result_data |-> << [ age |-> 44, assets_end |-> 100 ] >> ],
                        [ settings |-> [ spouse_income |-> "full" ],
                          result_data |-> <<>> ] } :
          /\ scenarios' = scenarios \cup
                { [ name |-> text,
                    settings |-> [ json |-> payload.settings ],
                    result_data |-> [ json |-> payload.result_data ] ] }
          /\ db_result' = [ call |-> "save_scenario", success |-> TRUE ]
          /\ scenario_latest' =
                { l \in scenario_latest : l.name # text }
                \cup { [ name |-> text, settings |-> payload.settings,
                         data |-> payload.result_data ] }
    /\ UNCHANGED << calc_vars, sim_vars, mc_vars, rule_vars, api_call,
                    api_count, plan_before, ret_pc, ret_age,
                    ret_start_assets, ret_assets, retirement_data, ret_summary,
                    ret_withdrawals, actual_records, actual_latest >>

\* save_scenario_to_db(name, settings, result_data)
save_scenario ==
    /\ \E text \in { <<>>, <<"a">>, <<"b">>,
                     [i \in 1..(MaxNameLen + 1) |-> "x"] },
          is_str \in BOOLEAN,
          payload \in { [ settings |-> [ spouse_income |-> "none" ],
                          result_data |-> << [ age |-> 44, assets_end |-> 100 ] >> ],
                        [ settings |-> [ spouse_income |-> "full" ],
                          result_data |-> <<>> ] } :
          /\ is_str \/ text = <<>>
          /\ IF ~is_str \/ Len(text) < 1 \/ Len(text) > MaxNameLen
             THEN /\ db_result' = [ call |-> "save_scenario", success |-> FALSE ]
                  /\ UNCHANGED << scenarios, scenario_latest >>
             ELSE /\ LET existing == { r \in scenarios : r.name = text }
                         settings_json == [ json |-> payload.settings ]
                         result_json == [ json |-> payload.result_data ]
                     IN scenarios' =
                          IF existing # {}
                          THEN { IF r.name = text
                                 THEN [ r EXCEPT !.settings = settings_json,
                                                 !.result_data = result_json ]
                                 ELSE r : r \in scenarios }
                          ELSE scenarios \cup
                                 { [ name |-> text, settings |-> settings_json,
                                     result_data |-> result_json ] }
                  /\ db_result' = [ call |-> "save_scenario", success |-> TRUE ]
                  /\ scenario_latest' =
                        { l \in scenario_latest : l.name # text }
                        \cup { [ name |-> text, settings |-> payload.settings,
                                 data |-> payload.result_data ] }
    /\ UNCHANGED << calc_vars, sim_vars, mc_vars, rule_vars, api_call,
                    api_count, plan_before, ret_pc, ret_age,
                    ret_start_assets, ret_assets, retirement_data, ret_summary,
                    ret_withdrawals, actual_records, actual_latest >>

\* load_scenario(name): the row's fields, or None (found = FALSE)
load_scenario(name) ==
    LET rows == { r \in scenarios : r.name = name }
    IN IF rows # {}
       THEN LET row == CHOOSE r \in rows : TRUE
            IN [ found |-> TRUE, name |-> row.name,
                 settings |-> row.settings.json, data |-> row.result_data.json ]
       ELSE [ found |-> FALSE, name |-> name, settings |-> <<>>, data |-> <<>> ]

\* delete_scenario_from_db(name)
delete_scenario ==
    /\ \E text \in { <<"a">>, <<"b">>, <<"c">> } :
          /\ scenarios' = { r \in scenarios : r.name # text }
          /\ db_result' =
                [ call |-> "delete_scenario",
                  success |-> \E r \in scenarios : r.name = text ]
          /\ scenario_latest' = { l \in scenario_latest : l.name # text }
    /\ UNCHANGED << calc_vars, sim_vars, mc_vars, rule_vars, api_call,
                    api_count, plan_before, ret_pc, ret_age,
                    ret_start_assets, ret_assets, retirement_data, ret_summary,
                    ret_withdrawals, actual_records, actual_latest >>

\* int(x) rounding to the nearest yen
IntRounded(x) == (x + 5) \div 10

\* int(x) for an amount x given in tenths of a yen: truncation towards zero
int(x) == IF x >= 0 THEN x \div 10 ELSE -((-x) \div 10)

\* save_actual_record of main.py, which validates the month and calls the
\* database's upsert on (record_year, record_month); amounts arrive in
\* tenths of a yen
save_actual_record ==
    /\ \E record_year \in {2025, 2026}, record_month \in {0, 1, 12, 13},
          given \in { [ age |-> 30, income_actual |-> 3000,
                        expenses_actual |-> 2000, investment_actual |-> 500,
                        cash_balance_actual |-> 10000, notes |-> "a" ],
                      [ age |-> 31, income_actual |-> 3005,
                        expenses_actual |-> 2009, investment_actual |-> 0,
                        cash_balance_actual |-> -15, notes |-> "b" ] } :
          IF ~(1 <= record_month /\ record_month <= 12)
          THEN /\ db_result' = [ call |-> "save_actual_record",
                                 success |-> FALSE ]
               /\ UNCHANGED << actual_records, actual_latest >>
          ELSE /\ LET row == [ record_year |-> record_year,
                               record_month |-> record_month,
                               age |-> given.age,
                               income_actual |-> int(given.income_actual),
                               expenses_actual |-> int(given.expenses_actual),
                               investment_actual |-> int(given.investment_actual),
                               cash_balance_actual |->
                                   int(given.cash_balance_actual),
                               notes |-> given.notes ]
                      conflict(r) == /\ r.record_year = record_year
                                     /\ r.record_month = record_month
                  IN actual_records' =
                       IF \E r \in actual_records : conflict(r)
                       THEN { IF conflict(r) THEN row ELSE r :
                                r \in actual_records }
                       ELSE actual_records \cup { row }
               /\ db_result' = [ call |-> "save_actual_record",
                                 success |-> TRUE ]
               /\ actual_latest' =
                     { l \in actual_latest :
                         ~(l.year = record_year /\ l.month = record_month) }
                     \cup { [ year |-> record_year, month |-> record_month,
                              given |-> given ] }
    /\ UNCHANGED << calc_vars, sim_vars, mc_vars, rule_vars, api_call,
                    api_count, plan_before, ret_pc, ret_age,
                    ret_start_assets, ret_assets, retirement_data, ret_summary,
                    ret_withdrawals, scenarios, scenario_latest >>

\* get_all_actual_records(): the rows ordered by (record_year, record_month)
RECURSIVE get_all_actual_records(_)
get_all_actual_records(rows) ==
    IF rows = {} THEN <<>>
    ELSE LET first == CHOOSE r \in rows : \A s \in rows :
                         \/ r.record_year < s.record_year
                         \/ /\ r.record_year = s.record_year
                            /\ r.record_month <= s.record_month
         IN << [ year |-> first.record_year, month |-> first.record_month,
                 age |-> first.age, income_actual |-> first.income_actual,
                 expenses_actual |-> first.expenses_actual,
                 investment_actual |-> first.investment_actual,
                 cash_balance_actual |-> first.cash_balance_actual,
                 notes |-> first.notes ] >>
            \o get_all_actual_records(rows \ {first})

\* delete_actual_record(record_year, record_month)
delete_actual_record ==
    /\ \E record_year \in {2025, 2026}, record_month \in {1, 12} :
          LET matches(r) == /\ r.record_year = record_year
                            /\ r.record_month = record_month
          IN /\ actual_records' = { r \in actual_records : ~matches(r) }
             /\ db_result' = [ call |-> "delete_actual_record",
                               success |-> \E r \in actual_records : matches(r) ]
             /\ actual_latest' =
                   { l \in actual_latest :
                       ~(l.year = record_year /\ l.month = record_month) }
    /\ UNCHANGED << calc_vars, sim_vars, mc_vars, rule_vars, api_call,
                    api_count, plan_before, ret_pc, ret_age,
                    ret_start_assets, ret_assets, retirement_data, ret_summary,
                    ret_withdrawals, scenarios, scenario_latest >>

InitDB ==
    /\ plan \in { MakePlan(64, FALSE, "single", "loose", "zero", FALSE, "none",
                           50, 50, "none") }
    /\ calc_monthly_data = <<>>
    /\ calc_yearly_data = <<>>
    /\ IdleSimulation(plan)
    /\ NoProjection
    /\ NoRuleCall
    /\ AppIdle

NextDB ==
    \/ save_scenario
    \/ delete_scenario
    \/ save_actual_record
    \/ delete_actual_record

SpecDB == InitDB /\ [][NextDB]_vars

\* ------------------------------------------------- plan handlers
\* The handlers of main.py that edit the stored plan.  The stored plan
\* (data_loader.plan_data, written to user_plan.json) is the variable plan.
\* number of handler calls that are followed
MaxApiCalls == 2

\* data_loader.save_user_plan(plan_data); calculator =
\* LifePlanCalculator(data_loader); calculator.simulate_30_years(), up to the
\* first iteration of its loop
Rerun(new_plan, call) ==
    /\ plan' = new_plan
    /\ plan_before' = plan
    /\ api_call' = call
    /\ api_count' = api_count + 1
    /\ calc_monthly_data' = <<>>
    /\ calc_yearly_data' = <<>>
    /\ BeginRun(new_plan)
    /\ pc' = IF new_plan.basic_info.start_age <= new_plan.basic_info.end_age
             THEN "month" ELSE "finish"
    /\ UNCHANGED << mc_vars, rule_vars, ret_pc, ret_age, ret_start_assets,
                    ret_assets, retirement_data, ret_summary, ret_withdrawals,
                    scenarios, actual_records, db_result, scenario_latest,
                    actual_latest >>

\* the update writing only the anchor of the age, without expanding the
\* progression
UpdateSingleAgeSalaryAnchorOnly ==
    /\ pc \in {"idle", "done"} /\ mc_pc = "none" /\ api_count < MaxApiCalls
    /\ \E target \in { plan.basic_info.start_age + 1,
                       plan.basic_info.start_age - 3 } :
         LET prog == plan.income_progression
             updated == [ a \in DOMAIN prog \cup {target} |->
                            IF a = target
                            THEN [ base_salary |-> 300, bonus_months |-> 5 ]
                            ELSE prog[a] ]
         IN Rerun([plan EXCEPT !.income_progression = updated],
                  [ api_call EXCEPT !.fn = "update_single_age_salary",
                                    !.error = FALSE, !.ages = {target} ])

update_single_age_salary ==
    /\ pc \in {"idle", "done"} /\ mc_pc = "none" /\ api_count < MaxApiCalls
    /\ \E target \in { plan.basic_info.start_age + 1,
                       plan.basic_info.start_age - 3 } :
         LET prog == plan.income_progression
             anchor_ages == SortedSeq(DOMAIN prog)
             s_age == GetOr(plan.basic_info, "start_age", 25)
             e_age == GetOr(plan.basic_info, "end_age", 65)
             full == [ a \in s_age..e_age |->
                         prog[ScanAnchors(anchor_ages, a, anchor_ages[1])] ]
             updated == [ a \in DOMAIN full \cup {target} |->
                            IF a = target
                            THEN [ base_salary |-> 300, bonus_months |-> 5 ]
                            ELSE full[a] ]
         IN Rerun([plan EXCEPT !.income_progression = updated],
                  [ api_call EXCEPT !.fn = "update_single_age_salary",
                                    !.error = FALSE, !.ages = {target} ])

update_salary_range ==
    /\ pc \in {"idle", "done"} /\ mc_pc = "none" /\ api_count < MaxApiCalls
    /\ \E range \in { << plan.basic_info.start_age, plan.basic_info.start_age + 1 >>,
                      << plan.basic_info.start_age + 1, plan.basic_info.end_age + 1 >> },
          change \in { [ change_type |-> "absolute", base_salary |-> 300,
                         bonus_months |-> 5 ],
                       [ change_type |-> "percent", base_salary |-> 10,
                         bonus_months |-> -1 ] } :
         LET prog == plan.income_progression
             anchor_ages == SortedSeq(DOMAIN prog)
             s_age == GetOr(plan.basic_info, "start_age", 25)
             e_age == GetOr(plan.basic_info, "end_age", 65)
             full == [ a \in s_age..e_age |->
                         prog[ScanAnchors(anchor_ages, a, anchor_ages[1])] ]
             targets == range[1]..range[2]
             overwritten(cur) ==
                 [ base_salary |->
                     IF change.change_type = "percent"
                     THEN RoundDiv(cur.base_salary * (100 + change.base_salary),
                                   100)
                     ELSE change.base_salary,
                   bonus_months |->
                     IF change.bonus_months >= 0 THEN change.bonus_months
                     ELSE cur.bonus_months ]
             updated == [ a \in DOMAIN full |->
                            IF a \in targets THEN overwritten(full[a])
                            ELSE full[a] ]
             call == [ api_call EXCEPT !.fn = "update_salary_range",
                                       !.ages = targets ]
         IN IF targets \subseteq DOMAIN full
            THEN Rerun([plan EXCEPT !.income_progression = updated],
                       [ call EXCEPT !.error = FALSE ])
            ELSE \* full[str(age)] raises KeyError: the error result is returned
                 /\ api_call' = [ call EXCEPT !.error = TRUE ]
                 /\ api_count' = api_count + 1
                 /\ plan_before' = plan
                 /\ UNCHANGED << calc_vars, sim_vars, mc_vars, rule_vars,
                                 ret_pc, ret_age, ret_start_assets, ret_assets,
                                 retirement_data, ret_summary, ret_withdrawals,
                                 scenarios, actual_records, db_result,
                                 scenario_latest, actual_latest >>

\* The names given have no surrounding blanks, so strip() leaves them as they
\* are.  An id is generated from the clock; the call counter stands for it.
save_custom_event ==
    /\ pc \in {"idle", "done"} /\ mc_pc = "none" /\ api_count < MaxApiCalls
    /\ \E event_data \in
            { [ id |-> 0, name |-> "trip", age |-> plan.basic_info.start_age + 1,
                cost |-> 700 ],
              [ id |-> 0, name |-> "", age |-> plan.basic_info.start_age + 1,
                cost |-> 700 ],
              [ id |-> 1, name |-> "car", age |-> plan.basic_info.start_age + 2,
                cost |-> 900 ] } :
         LET le == plan.life_events
             events == GetOr(le, "custom_events", <<>>)
             with_events(list) ==
                 [ plan EXCEPT !.life_events =
                     [ k \in DOMAIN le \cup {"custom_events"} |->
                         IF k = "custom_events" THEN list ELSE le[k] ] ]
             stored(ev_id) ==
                 [ id |-> ev_id, name |-> event_data.name,
                   age |-> event_data.age, cost |-> event_data.cost,
                   description |-> "" ]
             matching == { i \in 1..Len(events) : events[i].id = event_data.id }
             updated ==
                 IF event_data.id # 0
                 THEN [ i \in 1..Len(events) |->
                          IF matching # {} /\ i = SetMin(matching)
                          THEN stored(event_data.id) ELSE events[i] ]
                 ELSE Append(events, stored(api_count + 1))
             call == [ api_call EXCEPT
                         !.fn = "save_custom_event",
                         !.event = [ id |-> IF event_data.id # 0
                                            THEN event_data.id
                                            ELSE api_count + 1,
                                     name |-> event_data.name,
                                     age |-> event_data.age,
                                     cost |-> event_data.cost ] ]
         IN IF event_data.name = ""
            THEN \* the list created in memory stays; nothing is saved
                 /\ plan' = with_events(events)
                 /\ api_call' = [ call EXCEPT !.error = TRUE ]
                 /\ api_count' = api_count + 1
                 /\ plan_before' = plan
                 /\ UNCHANGED << calc_monthly_data, calc_yearly_data, sim_vars,
                                 mc_vars, rule_vars,
                                 ret_pc, ret_age, ret_start_assets, ret_assets,
                                 retirement_data, ret_summary, ret_withdrawals,
                                 scenarios, actual_records, db_result,
                                 scenario_latest, actual_latest >>
            ELSE Rerun(with_events(updated), [ call EXCEPT !.error = FALSE ])

delete_custom_event ==
    /\ pc \in {"idle", "done"} /\ mc_pc = "none" /\ api_count < MaxApiCalls
    /\ \E ev_id \in {1, 2} :
         LET le == plan.life_events
             events == GetOr(le, "custom_events", <<>>)
             kept == SelectSeq(events, LAMBDA e : e.id # ev_id)
         IN Rerun([ plan EXCEPT !.life_events =
                      [ k \in DOMAIN le \cup {"custom_events"} |->
                          IF k = "custom_events" THEN kept ELSE le[k] ] ],
                  [ api_call EXCEPT !.fn = "delete_custom_event",
                                    !.error = FALSE,
                                    !.event = [ id |-> ev_id, name |-> "",
                                                age |-> 0, cost |-> 0 ] ])

\* One pass of the loop per scenario: a DataLoader of its own reads the stored
\* plan, the overrides are written into that copy, and a calculator of its
\* own simulates it (the steps of simulate_30_years, with sim_plan the copy).
\* The spouse_income values "none" and "raise" stand for the two labels the
\* handler tests for.  The salaries are multiples of ten, so the products
\* with 1.1 and 0.9 are whole.
calculate_scenario_comparison ==
    LET overridden(scenario) ==
            LET with_return ==
                    IF "investment_return" \in DOMAIN scenario
                    THEN [ plan EXCEPT !.investment_settings.nisa.expected_return
                                          = scenario.investment_return ]
                    ELSE plan
                spouse == GetOr(scenario, "spouse_income", "absent")
                with_spouse ==
                    IF spouse = "none"
                    THEN [ with_return EXCEPT !.spouse_income =
                             Merge(@, [ k \in {"28-47", "48-55"} |-> 0 ]) ]
                    ELSE IF spouse = "raise"
                    THEN [ with_return EXCEPT !.spouse_income =
                             Merge(@, [ k \in {"28-47", "48-55"} |->
                                          IF k = "28-47" THEN 120 ELSE 150 ]) ]
                    ELSE with_return
                growth == GetOr(scenario, "salary_growth", "absent")
                factor == IF growth = "+10%" THEN 11
                          ELSE IF growth = "-10%" THEN 9 ELSE 10
            IN [ with_spouse EXCEPT !.income_progression =
                   [ a \in DOMAIN @ |->
                       [ @[a] EXCEPT !.base_salary = (@ * factor) \div 10 ] ] ]
    IN \/ \* the call
          /\ pc \in {"idle", "done"} /\ mc_pc = "none"
          /\ api_count < MaxApiCalls
          /\ \E list \in
                { << [ name |-> "no spouse income", spouse_income |-> "none" ] >>,
                  << [ name |-> "more", spouse_income |-> "raise",
                       salary_growth |-> "+10%" ],
                     [ name |-> "no spouse income", spouse_income |-> "none" ] >>,
                  << [ investment_return |-> 50 ],
                     [ salary_growth |-> "-10%" ] >>,
                  <<>> } :
               api_call' = [ api_call EXCEPT
                               !.fn = "calculate_scenario_comparison",
                               !.error = FALSE, !.scenarios = list ]
          /\ api_count' = api_count + 1
          /\ plan_before' = plan
          /\ mc_pc' = "comparison"
          /\ pc' = "scenario"
          /\ trial' = 0
          /\ all_results' = <<>>
          /\ UNCHANGED << calc_vars, loop_vars, ledger_vars, year_vars,
                          out_vars, hist_vars, annual_returns, mc_output,
                          rule_vars,
                          ret_pc, ret_age, ret_start_assets, ret_assets,
                          retirement_data, ret_summary, ret_withdrawals,
                          scenarios, actual_records, db_result,
                          scenario_latest, actual_latest >>
       \/ \* for scenario in scenarios: the next scenario, or the return
          /\ pc = "scenario" /\ mc_pc = "comparison"
          /\ IF trial < Len(api_call.scenarios)
             THEN LET temp_plan == overridden(api_call.scenarios[trial + 1])
                  IN /\ trial' = trial + 1
                     /\ BeginRun(temp_plan)
                     /\ pc' = IF temp_plan.basic_info.start_age
                                   <= temp_plan.basic_info.end_age
                              THEN "month" ELSE "finish"
                     /\ UNCHANGED << mc_pc, mc_output >>
             ELSE /\ mc_output' = << [ kind |-> "comparison",
                                       data |-> all_results ] >>
                  /\ mc_pc' = "none"
                  /\ pc' = IF calc_monthly_data = <<>> THEN "idle" ELSE "done"
                  /\ UNCHANGED << trial, loop_vars, ledger_vars, year_vars,
                                  out_vars, hist_vars >>
          /\ UNCHANGED << calc_vars, annual_returns, all_results, rule_vars,
                          app_vars >>
       \/ \* temp_calc.simulate_30_years() has returned: results.append(...)
          /\ pc = "finish" /\ mc_pc = "comparison"
          /\ all_results' = Append(all_results,
                [ scenario_name |-> GetOr(api_call.scenarios[trial], "name",
                                          "scenario"),
                  yearly_data |-> yearly_summary,
                  final_assets |->
                    IF yearly_summary # <<>>
                    THEN yearly_summary[Len(yearly_summary)].assets_end
                    ELSE 0 ])
          /\ pc' = "scenario"
          /\ UNCHANGED << calc_vars, loop_vars, ledger_vars, year_vars,
                          out_vars, hist_vars, mc_pc, trial, annual_returns,
                          mc_output, rule_vars, app_vars >>

InitApi ==
    /\ plan \in { MakePlan(48, FALSE, "rising", "loose", "zero", FALSE, "cheap",
                           50, 50, "none") }
    /\ calc_monthly_data = <<>>
    /\ calc_yearly_data = <<>>
    /\ IdleSimulation(plan)
    /\ NoProjection
    /\ NoRuleCall
    /\ AppIdle

NextApi ==
    \/ Next
    \/ update_single_age_salary
    \/ update_salary_range
    \/ save_custom_event
    \/ delete_custom_event
    \/ calculate_scenario_comparison

SpecApi == InitApi /\ [][NextApi]_vars

\* ================================================================ claims
\* sum of the amounts of a payment_sources list
RECURSIVE SumSources(_)
SumSources(ps) == IF ps = <<>> THEN 0 ELSE Head(ps).amount + SumSources(Tail(ps))

\* sum of every balance the ledger holds
AllBalances(a) ==
    a.nisa_tsumitate_balance + a.nisa_growth_balance + a.education_fund_balance
    + a.marriage_fund_balance + a.taxable_account_balance + a.cash_balance
    + SumValues(a.custom_event_funds)

\* C1: in every yearly record, assets_end equals the sum of the per-bucket
\* year-end balances named in that record (nisa_tsumitate, nisa_growth,
\* company_stock, education_fund, taxable_account, cash and the custom-event
\* fund balances).
C1_AssetsEndIsSumOfNamedBalances ==
    \A i \in 1..Len(yearly_summary) :
        LET r == yearly_summary[i]
        IN r.assets_end =
             r.nisa_tsumitate + r.nisa_growth + r.company_stock + r.education_fund
             + r.taxable_account + r.cash + SumValues(r.custom_event_funds)

\* C3: in every simulated month, with available = income - expenses and
\* actual = the amount taken out of the month's cash for investment: actual
\* is 0 when available <= 0, actual equals available when the requested
\* total exceeds a positive available, and so the net cashflow is negative
\* only when available is negative.
C3_InvestmentRationedToAvailable ==
    \A i \in 1..Len(monthly_data) :
        LET md == monthly_data[i]
            available == md.income.total - md.expenses.total
            requested == md.investment.total
            actual == available - md.cashflow.monthly
        IN /\ available <= 0 => actual = 0
           /\ (requested > available /\ available > 0) => actual = available
           /\ md.cashflow.monthly < 0 => available < 0

\* total of the nisa_tsumitate requests of the months simulated so far
RECURSIVE TsumitateRequested(_)
TsumitateRequested(flows) ==
    IF flows = <<>> THEN 0
    ELSE Head(flows).tsumitate_requested + TsumitateRequested(Tail(flows))

\* C4: when the requests for the capped tsumitate bucket total twice its cap
\* over the horizon, the cumulative contribution ends at the cap and in every
\* month the amount absorbed by the bucket plus the amount added to the
\* taxable account equals the amount requested.
C4_OverflowRoutedToTaxable ==
    (pc = "done"
     /\ TsumitateRequested(month_flows)
          = 2 * sim_plan.investment_settings.nisa.tsumitate_limit)
    => /\ nisa_tsumitate_total_contribution
            = sim_plan.investment_settings.nisa.tsumitate_limit
       /\ \A i \in 1..Len(month_flows) :
            month_flows[i].tsumitate_absorbed + month_flows[i].tsumitate_to_taxable
              = month_flows[i].tsumitate_requested

\* C5: for every settled irregular expense (marriage, home purchase,
\* university, custom event) the amounts of its payment sources sum to the
\* amount taken out of the ledger balances by that settlement.
C5_PaymentSourcesSumToDeducted ==
    \A i \in 1..Len(settled) :
        SumSources(settled[i].sources)
          = AllBalances(settled[i].before) - AllBalances(settled[i].after)

\* C6: a marriage or home-purchase settlement takes min(balance, remaining)
\* from each source in turn and records exactly those amounts.
C6_WaterfallTakesMinOfBalanceAndRemaining ==
    \A i \in 1..Len(settled) :
        LET s == settled[i]
            took(field) == s.before[field] - s.after[field]
            recorded(name) ==
                SumSources(SelectSeq(s.sources, LAMBDA x : x.source = <<name>>))
        IN /\ s.kind = "marriage" =>
                LET fund == Min(s.before.marriage_fund_balance, s.amount)
                    rest == s.amount - fund
                IN /\ took("marriage_fund_balance") = fund
                   /\ recorded("marriage_fund") = fund
                   /\ rest > 0 =>
                        /\ took("cash_balance") = Min(s.before.cash_balance, rest)
                        /\ recorded("cash") = took("cash_balance")
           /\ s.kind = "home_purchase" =>
                LET cash == Min(s.before.cash_balance, s.amount)
                    rest1 == s.amount - cash
                    edu == Min(s.before.education_fund_balance, rest1)
                    rest2 == rest1 - edu
                IN /\ took("cash_balance") = cash
                   /\ rest1 > 0 => took("education_fund_balance") = edu
                   /\ rest2 > 0 =>
                        took("nisa_growth_balance")
                          = Min(s.before.nisa_growth_balance, rest2)

\* C7: no ledger balance, cash included, is ever negative.
C7_NoNegativeBalance ==
    /\ assets.nisa_tsumitate_balance >= 0
    /\ assets.nisa_growth_balance >= 0
    /\ assets.company_stock_balance >= 0
    /\ assets.education_fund_balance >= 0
    /\ assets.marriage_fund_balance >= 0
    /\ assets.taxable_account_balance >= 0
    /\ assets.cash_balance >= 0
    /\ \A id \in DOMAIN assets.custom_event_funds : assets.custom_event_funds[id] >= 0

\* the year-end blocks named by the order education, equity update,
\* marriage, home purchase, custom events, retirement
ClaimedYearEndOrder ==
    << "education", "stock_dividend", "marriage", "home_purchase",
       "custom_events", "retirement" >>

\* C8 as stated: the year-end blocks run in the order education, equity
\* price/dividend update, marriage, home purchase, custom events, retirement,
\* the dividend being credited before any custom-event withdrawal.
C8_DividendBeforeCustomEvents ==
    pc = "record" =>
        SelectSeq(steps, LAMBDA x : x # "university") = ClaimedYearEndOrder

\* C8 as the code has it: the year-end blocks run in the order education,
\* custom events, equity price/dividend update, marriage, home purchase,
\* university, retirement; custom events are settled against the ledger as
\* it stood before the year's equity update, while marriage, home purchase
\* and university are settled after it.
C8_YearEndOrder ==
    pc = "record" =>
        /\ steps = << "education", "custom_events", "stock_dividend", "marriage",
                      "home_purchase", "university", "retirement" >>
        /\ \A i \in 1..Len(settled) :
             IF settled[i].kind = "custom_event"
             THEN settled[i].before.company_stock_balance
                    = year_start_assets.company_stock_balance
             ELSE settled[i].before.company_stock_balance
                    = assets.company_stock_balance

\* a year end where a custom event and the marriage were both settled and a
\* cash dividend was received
C8_Witness ==
    /\ pc = "record"
    /\ annual_dividend_received > 0
    /\ \E i \in 1..Len(settled) : settled[i].kind = "custom_event"
    /\ \E i \in 1..Len(settled) : settled[i].kind = "marriage"

\* zero inflation, zero returns, price growth, dividend and incentive, one
\* income anchor, no life event, no custom event, no dependents
ScenarioA(p) ==
    /\ ~p.inflation_settings.enabled
    /\ p.investment_settings.nisa.expected_return = 0
    /\ p.investment_settings.taxable_account.expected_return = 0
    /\ p.investment_settings.education_fund.expected_return = 0
    /\ p.investment_settings.company_stock.price_growth_rate = 0
    /\ p.investment_settings.company_stock.dividend_yield = 0
    /\ p.investment_settings.company_stock.incentive_rate = 0
    /\ Cardinality(DOMAIN p.income_progression) = 1
    /\ ~(p.life_events.marriage.age \in p.basic_info.start_age..p.basic_info.end_age)
    /\ ~(p.life_events.home_purchase.age \in p.basic_info.start_age..p.basic_info.end_age)
    /\ get_active_custom_events(p) = <<>>
    /\ p.basic_info.first_child_birth_age > p.basic_info.end_age
    /\ p.basic_info.second_child_birth_age > p.basic_info.end_age
    /\ ~p.retirement_benefit.enabled

\* income minus expenses, summed over the first n monthly records
RECURSIVE CumulativeNet(_, _)
CumulativeNet(records, n) ==
    IF n = 0 THEN 0
    ELSE records[n].income.total - records[n].expenses.total
         + CumulativeNet(records, n - 1)

\* C9: in scenario A every yearly record's assets_end equals the cumulative
\* sum of (income - expenses) over the months simulated so far.
C9_NetWorthIsCumulativeSavings ==
    ScenarioA(sim_plan) =>
        \A i \in 1..Len(yearly_summary) :
            yearly_summary[i].assets_end
              = CumulativeNet(monthly_data, MonthsPerYear * i)

\* C2: after every simulated month of simulate_30_years and of
\* _simulate_with_variable_returns, the cumulative contribution counter of
\* each capped NISA bucket is at most its configured lifetime limit.
C2_NisaCountersWithinLimits ==
    /\ nisa_tsumitate_total_contribution
         <= sim_plan.investment_settings.nisa.tsumitate_limit
    /\ nisa_growth_total_contribution
         <= sim_plan.investment_settings.nisa.growth_limit

\* a variable-return run in which the tsumitate limit was reached part-way
\* through a month and a later request went to the taxable account
C2_Witness ==
    /\ pc = "v_month"
    /\ nisa_tsumitate_total_contribution
         = sim_plan.investment_settings.nisa.tsumitate_limit
    /\ \E i \in 1..Len(month_flows) :
         /\ 0 < month_flows[i].tsumitate_absorbed
         /\ month_flows[i].tsumitate_absorbed < month_flows[i].tsumitate_requested
    /\ \E i \in 1..Len(month_flows) : month_flows[i].tsumitate_to_taxable > 0

\* every return drawn for the current trial equals the configured expected
\* return
ZeroSpread ==
    \A i \in 1..Len(annual_returns) :
        annual_returns[i] = plan.investment_settings.nisa.expected_return

\* C10: a trial of run_monte_carlo or run_monte_carlo_advanced whose drawn
\* returns all equal the configured expected return ends with the final
\* assets_end of the deterministic simulate_30_years run of the calculator.
C10_ZeroSpreadTrialMatchesDeterministic ==
    (pc = "sample" /\ trial > 0 /\ ZeroSpread)
    => all_results[Len(all_results)].final_assets = FinalAssets(calc_yearly_data)

\* salary_net + bonus_net summed over the n monthly records ending at `last`
RECURSIVE NetPayOver(_, _, _)
NetPayOver(records, last, n) ==
    IF n = 0 THEN 0
    ELSE records[last].income.salary_net + records[last].income.bonus_net
         + NetPayOver(records, last - 1, n - 1)

\* take-home of the base-only annual salary at an age
BaseOnlyTakehome(p, at_age) ==
    calculate_takehome(p, get_salary_for_age(p, at_age).base_salary * MonthsPerYear,
                       get_housing_allowance_for_age(p, at_age) * MonthsPerYear)

\* take-home of the total annual compensation, bonus included, at an age
TotalTakehome(p, at_age) ==
    LET s == get_salary_for_age(p, at_age)
    IN calculate_takehome(p, s.base_salary * (MonthsPerYear + s.bonus_months),
                          get_housing_allowance_for_age(p, at_age) * MonthsPerYear)

\* C11: in every monthly record salary_net is the take-home of the base-only
\* annual salary divided by 12 and a bonus month's bonus_net is half of
\* (take-home of the total annual compensation - base-only take-home); over
\* each simulated year the 12 salary_net and 2 bonus_net amounts sum to the
\* take-home of the total annual compensation (up to the rounding of the
\* divisions by 12 and by 2).
C11_NetPayNotDoubleCounted ==
    /\ \A i \in 1..Len(monthly_data) :
         LET md == monthly_data[i]
             base_only == BaseOnlyTakehome(sim_plan, md.age)
             total == TotalTakehome(sim_plan, md.age)
         IN /\ md.income.salary_net = base_only \div MonthsPerYear
            /\ md.income.bonus_net =
                 IF is_bonus_month(md.month) THEN (total - base_only) \div 2 ELSE 0
    /\ \A y \in 1..Len(yearly_summary) :
         LET paid == NetPayOver(monthly_data, MonthsPerYear * y, MonthsPerYear)
             total == TotalTakehome(sim_plan, yearly_summary[y].age)
         IN total - MonthsPerYear <= paid /\ paid <= total

\* the part of a base lying between two breakpoints
PartInBand(base, low, high) == Max(0, Min(base, high) - low)

\* income tax with the four bands applied as progressive marginal bands
MarginalTax(p, tax_base) ==
    LET rates == p.tax_rates.income_tax_rates
    IN MulRate(PartInBand(tax_base, 0, TaxBand1), rates.band1)
       + MulRate(PartInBand(tax_base, TaxBand1, TaxBand2), rates.band2)
       + MulRate(PartInBand(tax_base, TaxBand2, TaxBand3), rates.band3)
       + MulRate(Max(0, tax_base - TaxBand3), rates.band4)

\* gross + allowance - insurance - marginal tax on the post-insurance base
MarginalTakehome(p, gross_annual, housing_allowance) ==
    LET taxable_income == gross_annual + housing_allowance
        social_insurance ==
            calculate_social_insurance_detailed(p, taxable_income \div 12) * 12
    IN taxable_income - social_insurance
       - MarginalTax(p, taxable_income - social_insurance)

\* C12: calculate_takehome returns gross + allowance - insurance - tax with
\* the tax computed by progressive marginal bands (breakpoints 5,500,000 /
\* 8,000,000 / 10,000,000) on the post-insurance base, and of two calls with
\* the same allowance the one with the greater gross income never returns
\* the smaller take-home.
C12_TakehomeProgressiveAndMonotone ==
    /\ rule_call.fn = "calculate_takehome" =>
         rule_call.result
           = MarginalTakehome(plan, rule_call.arg[1], rule_call.arg[2])
    /\ ( /\ rule_first.fn = "calculate_takehome"
         /\ rule_call.fn = "calculate_takehome"
         /\ rule_first.arg[2] = rule_call.arg[2]
         /\ rule_first.arg[1] <= rule_call.arg[1] )
       => rule_first.result <= rule_call.result

\* the records of a list are those of ages start_age, start_age + 1, ... in
\* order, `per_age` records for each age
InAgeOrder(records, start_age, per_age) ==
    \A i \in 1..Len(records) : records[i].age = start_age + (i - 1) \div per_age

\* C13: simulate_30_years visits the ages start_age..end_age in increasing
\* order and the months 1..12 in increasing order within each age: the
\* monthly records are ordered by (age, month), the yearly records by age,
\* and the returned lists hold exactly 12 x (end_age - start_age + 1) monthly
\* records and one yearly record per age.
C13_RecordsOrderedAndComplete ==
    LET start_age == sim_plan.basic_info.start_age
        num_ages == sim_plan.basic_info.end_age - start_age + 1
    IN /\ InAgeOrder(monthly_data, start_age, MonthsPerYear)
       /\ \A i \in 1..Len(monthly_data) :
            monthly_data[i].month = ((i - 1) % MonthsPerYear) + 1
       /\ InAgeOrder(yearly_summary, start_age, 1)
       /\ pc = "done" =>
            /\ Len(calc_monthly_data) = MonthsPerYear * num_ages
            /\ Len(calc_yearly_data) = num_ages
            /\ calc_monthly_data = monthly_data
            /\ calc_yearly_data = yearly_summary

\* a finished run over more than one age
C13_Witness ==
    /\ pc = "done"
    /\ Len(calc_yearly_data) > 1
    /\ calc_monthly_data[Len(calc_monthly_data)].age = plan.basic_info.end_age
    /\ calc_monthly_data[Len(calc_monthly_data)].month = MonthsPerYear

\* the greatest anchor age <= the age, the smallest anchor when there is none
GreatestAnchorAtMost(p, at_age) ==
    LET anchors == DOMAIN p.income_progression
        reached == {a \in anchors : a <= at_age}
    IN IF reached = {} THEN SetMin(anchors) ELSE SetMax(reached)

\* C14: get_salary_for_age returns the entry of the greatest anchor age that
\* is <= the age, and the entry of the smallest anchor when no anchor is <=
\* the age; get_full_salary_table returns one row per age of
\* start_age..end_age, in order, carrying that same entry's base_salary and
\* bonus_months.
C14_SalaryResolvesToGreatestAnchor ==
    /\ rule_call.fn = "get_salary_for_age" =>
         rule_call.result
           = plan.income_progression[GreatestAnchorAtMost(plan, rule_call.arg[1])]
    /\ rule_call.fn = "get_full_salary_table" =>
         LET rows == rule_call.result
             start_age == plan.basic_info.start_age
         IN /\ Len(rows) = plan.basic_info.end_age - start_age + 1
            /\ \A i \in 1..Len(rows) :
                 LET entry == plan.income_progression[
                                  GreatestAnchorAtMost(plan, start_age + i - 1)]
                 IN /\ rows[i].age = start_age + i - 1
                    /\ rows[i].base_salary = entry.base_salary
                    /\ rows[i].bonus_months = entry.bonus_months

\* a lookup below every anchor, then the salary table of a plan whose two
\* anchors give the first and the last simulated age different salaries
C14_Witness ==
    /\ rule_first.fn = "get_salary_for_age"
    /\ \A a \in DOMAIN plan.income_progression : rule_first.arg[1] < a
    /\ rule_call.fn = "get_full_salary_table"
    /\ rule_call.result[1].base_salary
         # rule_call.result[Len(rule_call.result)].base_salary

\* the inclusive age range named by a band key
BandRange(key) ==
    CASE key = "25-27" -> 25..27
      [] key = "28-47" -> 28..47
      [] key = "28-49" -> 28..49
      [] key = "45-49" -> 45..49
      [] key = "48-64" -> 48..64
      [] key = "50-55" -> 50..55
      [] key = "65-99" -> 65..99

\* no configured band of the table holds the age
InNoBand(table, at_age) ==
    \A key \in DOMAIN table : at_age \notin BandRange(key)

\* C15: the age-band lookups of spouse income, housing allowance and housing
\* costs return the value of the configured band whose inclusive range holds
\* the age, and zero (an empty dict for housing costs) for an age that lies
\* in no configured band.
C15_NoBandGivesZero ==
    LET at_age == rule_call.arg[1]
    IN /\ (rule_call.fn = "get_spouse_income_for_age"
           /\ InNoBand(plan.spouse_income, at_age))
          => rule_call.result = 0
       /\ (rule_call.fn = "get_housing_allowance_for_age"
           /\ InNoBand(plan.housing_allowance, at_age))
          => rule_call.result = 0
       /\ (rule_call.fn = "get_housing_costs_for_age"
           /\ InNoBand(plan.housing_costs, at_age))
          => rule_call.result = EmptyDict

\* the plan a trial in progress simulates is the calculator's plan with, for
\* run_monte_carlo, only that trial's own average draw substituted
TrialPlanIsOwnCopy ==
    (mc_pc # "none" /\ trial > 0 /\ pc \notin {"sample", "done"}) =>
        IF mc_pc = "simple"
        THEN sim_plan = TempPlan(plan, SumSeq(annual_returns) \div Len(annual_returns))
        ELSE sim_plan = plan

\* C16: every step of run_monte_carlo and run_monte_carlo_advanced leaves the
\* calling calculator's plan data (investment return settings included) and
\* its cached monthly_data / yearly_data unchanged, and each trial simulates
\* the unchanged plan with only its own sampled rates substituted.
C16_ProjectorsLeaveCalculatorUnchanged ==
    /\ []TrialPlanIsOwnCopy
    /\ [][(mc_pc # "none" \/ mc_pc' # "none") => UNCHANGED calc_vars]_vars

\* the second trial of run_monte_carlo is being simulated at a rate that
\* differs from the configured one and from the first trial's
C16_Witness ==
    /\ mc_pc = "simple" /\ pc = "month" /\ trial = 2
    /\ Len(all_results) = 1
    /\ calc_yearly_data # <<>>
    /\ sim_plan.investment_settings.nisa.expected_return
         # plan.investment_settings.nisa.expected_return
    /\ sim_plan.investment_settings.nisa.expected_return # all_results[1].avg_return

\* the source names of a payment_sources list, in order
SourceNames(ps) == [ i \in 1..Len(ps) |-> ps[i].source[1] ]

\* s lists some of the names of `order`, in the order of `order`
RECURSIVE IsSubsequence(_, _)
IsSubsequence(s, order) ==
    IF s = << >> THEN TRUE
    ELSE IF order = << >> THEN FALSE
    ELSE IF Head(s) = Head(order) THEN IsSubsequence(Tail(s), Tail(order))
    ELSE IsSubsequence(s, Tail(order))

\* the balances a settlement changed
Touched(s) ==
    { f \in { "nisa_tsumitate_balance", "nisa_growth_balance",
              "company_stock_balance", "education_fund_balance",
              "marriage_fund_balance", "taxable_account_balance",
              "cash_balance" } : s.before[f] # s.after[f] }

\* a settlement changes only the balances of `fields`, and a balance of
\* the list only when every balance before it in the list ends at zero
DrainedInOrder(s, fields) ==
    /\ Touched(s) \subseteq { fields[i] : i \in 1..Len(fields) }
    /\ s.before.custom_event_funds = s.after.custom_event_funds
    /\ \A i \in 1..Len(fields) :
         fields[i] \in Touched(s) =>
            \A j \in 1..(i - 1) : s.after[fields[j]] = 0

\* the home-purchase settlements drain cash, the education fund and the
\* NISA growth bucket in that order
HomePurchaseInOrder ==
    \A i \in 1..Len(settled) :
        settled[i].kind = "home_purchase" =>
            /\ DrainedInOrder(settled[i], << "cash_balance", "education_fund_balance",
                                            "nisa_growth_balance" >>)
            /\ IsSubsequence(SourceNames(settled[i].sources),
                             << "cash", "education_fund", "nisa_growth" >>)

\* the plan has saved into the per-child (child preparation) fund
ChildPreparationSaved ==
    \E i \in 1..Len(monthly_data) :
        Get(monthly_data[i].investment, "child_preparation_fund") > 0

\* C20 as stated: home purchase drains cash, then the education fund, then
\* the NISA growth bucket; a university settlement draws first on the
\* dedicated per-child savings, then on the education fund, then on cash.
C20_ClaimedSourceOrder ==
    /\ HomePurchaseInOrder
    /\ \A i \in 1..Len(settled) :
         (settled[i].kind = "university" /\ ChildPreparationSaved) =>
            /\ settled[i].sources # << >>
            /\ SourceNames(settled[i].sources)[1] = "child_preparation_fund"
            /\ IsSubsequence(SourceNames(settled[i].sources),
                             << "child_preparation_fund", "education_fund", "cash" >>)

\* C20 as the code has it: home purchase drains cash, then the education
\* fund, then the NISA growth bucket; university costs drain the education
\* fund, then cash (the per-child savings are kept in cash); a later source
\* is touched only when every earlier one ends at zero, and no other balance
\* is touched.
C20_SourcesDrainedInOrder ==
    /\ HomePurchaseInOrder
    /\ \A i \in 1..Len(settled) :
         settled[i].kind = "university" =>
            /\ DrainedInOrder(settled[i], << "education_fund_balance",
                                            "cash_balance" >>)
            /\ IsSubsequence(SourceNames(settled[i].sources),
                             << "education_fund", "cash" >>)

\* a year end where the home purchase went through all three of its sources
\* and the university costs went past the education fund into cash
C20_Witness ==
    /\ pc = "record"
    /\ \E i \in 1..Len(settled) :
         /\ settled[i].kind = "home_purchase"
         /\ settled[i].before.education_fund_balance > 0
         /\ "nisa_growth_balance" \in Touched(settled[i])
    /\ \E i \in 1..Len(settled) :
         /\ settled[i].kind = "university"
         /\ "cash_balance" \in Touched(settled[i])

\* the five age lookups
AgeLookups ==
    { "get_salary_for_age", "get_phase_for_age", "get_housing_allowance_for_age",
      "get_housing_costs_for_age", "get_spouse_income_for_age" }

\* two calls of the same lookup for the same age returned the same result
SameLookupSameResult ==
    (rule_first.fn \in AgeLookups
     /\ rule_call.fn = rule_first.fn
     /\ rule_call.arg = rule_first.arg)
    => rule_call.result = rule_first.result

C17_OptionalSectionsTolerated ==
    ~StartRaises(plan) => pc # "raised"

\* C18: a run of simulate_30_years that fails on a configuration defect
\* publishes nothing: when an age boundary is missing the run has produced no
\* monthly and no yearly record, and no step of a run other than its
\* completion changes the calculator's cached monthly_data and yearly_data,
\* so that after every failure they hold what they held before the call.
C18_FailedRunPublishesNothing ==
    /\ [](pc = "raised" /\ StartRaises(plan)
            => monthly_data = <<>> /\ yearly_summary = <<>>)
    /\ [][pc' # "done"
            => UNCHANGED << calc_monthly_data, calc_yearly_data >>]_vars
    /\ [](pc = "raised"
            => calc_monthly_data = <<>> /\ calc_yearly_data = <<>>)

\* a run that failed at the first year end, twelve monthly records into it
C18_Witness ==
    /\ pc = "raised"
    /\ MarriageRaises(sim_plan)
    /\ Len(monthly_data) = 12
    /\ calc_monthly_data = <<>>

\* ------------------------------------------------------------------ C21
\* the share price after a number of yearly updates
RECURSIVE GrownPrice(_, _)
GrownPrice(p, years) ==
    IF years = 0 THEN p.investment_settings.company_stock.initial_price
    ELSE LET previous == GrownPrice(p, years - 1)
         IN previous
            + MulRate(previous,
                      p.investment_settings.company_stock.price_growth_rate)

\* the yearly price updates a run has been through
YearsGrown ==
    IF pc \in {"finish", "done"} THEN Len(yearly_summary)
    ELSE Len(yearly_summary)
         + (IF \E i \in 1..Len(steps) : steps[i] = "stock_dividend"
            THEN 1 ELSE 0)

\* the month's purchase converts contribution x (1 + incentive) at the price
\* of the year before its update
MonthlyPurchaseAtPreGrowthPrice ==
    pc = "month" /\ pc' # "raised" =>
       LET contribution ==
               Get(monthly_data'[Len(monthly_data')].investment, "company_stock")
           incentive ==
               sim_plan.investment_settings.company_stock.incentive_rate
       IN assets'.company_stock_shares =
             assets.company_stock_shares
             + SharesFor(contribution * (1000 + incentive),
                         GrownPrice(sim_plan, Len(yearly_summary)))

\* the reinvested part buys shares at the updated price, the rest is paid
\* in cash
DividendSplitAtPostGrowthPrice ==
    pc = "stock_dividend" =>
       /\ assets'.company_stock_shares - assets.company_stock_shares =
             SharesFor((annual_dividend_total' - annual_dividend_received') * 1000,
                       GrownPrice(sim_plan, Len(yearly_summary) + 1))
       /\ assets'.cash_balance - assets.cash_balance = annual_dividend_received'
       /\ assets'.company_stock_balance =
             StockValue(assets'.company_stock_shares, stock_price')

\* the yearly record just written holds share count x current price
RecordHoldsSharesTimesPrice ==
    (/\ Len(yearly_summary) > 0
     /\ \/ pc \in {"finish", "done"}
        \/ pc = "month" /\ month = 1 /\ monthly_data # <<>>
           /\ Len(monthly_data) = MonthsPerYear * Len(yearly_summary))
    => yearly_summary[Len(yearly_summary)].company_stock =
          StockValue(assets.company_stock_shares, stock_price)

\* C21: the share price is multiplied by (1 + growth rate) exactly once per
\* simulated year, after the year's 12 monthly purchases, which convert
\* contribution x (1 + incentive) at the pre-growth price; dividend
\* reinvestment buys shares at the post-growth price, reinvested amount plus
\* cash-distributed amount equals the year's dividend, and every yearly
\* record's company_stock equals share count x current price.
C21_EquityTrackedInShares ==
    /\ [](pc # "idle" => stock_price = GrownPrice(sim_plan, YearsGrown))
    /\ [][MonthlyPurchaseAtPreGrowthPrice]_vars
    /\ [][DividendSplitAtPostGrowthPrice]_vars
    /\ []RecordHoldsSharesTimesPrice

\* a finished run whose last year grew the price and split a dividend
\* between reinvestment and cash
C21_Witness ==
    /\ pc = "done"
    /\ Len(yearly_summary) = MaxYears
    /\ stock_price > sim_plan.investment_settings.company_stock.initial_price
    /\ annual_dividend_received > 0
    /\ annual_dividend_received < annual_dividend_total
    /\ yearly_summary[Len(yearly_summary)].company_stock > 0

\* ------------------------------------------------------------------ C22
\* the snapshot of the record a month step appends, against the ledger the
\* step started from
SnapshotMatchesLedger ==
    pc = "month" /\ pc' # "raised" =>
       LET snapshot == monthly_data'[Len(monthly_data')].assets
       IN /\ snapshot.nisa_balance =
                assets.nisa_tsumitate_balance + assets.nisa_growth_balance
          /\ snapshot.company_stock_balance = assets.company_stock_balance
          /\ snapshot.cash_balance = assets.cash_balance
          /\ snapshot.total = LedgerTotal(sim_plan, assets)

\* C22: each monthly record's assets snapshot equals the ledger as it stood
\* at the start of that month: its NISA balance, company-stock balance, cash
\* balance and total are the ledger's balances at that moment, and total is
\* the sum of the ledger's named balances at that moment.
C22_SnapshotIsLedgerAtMonthStart == [][SnapshotMatchesLedger]_vars

\* ------------------------------------------------------------------ C27
\* the balances a settlement may draw on or leave alone
LedgerFields ==
    { "nisa_tsumitate_balance", "nisa_growth_balance", "company_stock_balance",
      "education_fund_balance", "marriage_fund_balance",
      "taxable_account_balance", "cash_balance" }

HomePurchaseOnlyRemoves ==
    pc = "home_purchase" /\ pc' # "raised" =>
       LET hp == sim_plan.life_events.home_purchase
           removed == LedgerTotal(sim_plan, assets)
                      - LedgerTotal(sim_plan, assets')
       IN /\ removed <= hp.down_payment + hp.closing_costs
          /\ removed >= 0
          /\ \A f \in LedgerFields : assets'[f] <= assets[f]

\* C27: the home-purchase settlement removes from the ledger at most
\* down_payment + closing_costs in total and never raises any balance or the
\* ledger total, whatever the state before it, a negative cash balance
\* included.
C27_HomePurchaseOnlyRemoves == [][HomePurchaseOnlyRemoves]_vars

\* ------------------------------------------------------------------ C30
\* C30: yearly records chain without gaps: the first yearly record has
\* assets_start = 0, and every later record's assets_start equals the
\* previous record's assets_end.
C30_YearlyRecordsChain ==
    \A i \in 1..Len(yearly_summary) :
        yearly_summary[i].assets_start =
            IF i = 1 THEN 0 ELSE yearly_summary[i - 1].assets_end

\* a finished run whose ledger total moved in every year
C30_Witness ==
    /\ pc = "done"
    /\ Len(yearly_summary) = MaxYears
    /\ \A i \in 1..Len(yearly_summary) :
          yearly_summary[i].assets_end # yearly_summary[i].assets_start

\* ------------------------------------------------------------------ C23
\* the five balances of the retirement ledger
RetirementFields ==
    { "cash_balance", "taxable_account_balance", "nisa_growth_balance",
      "nisa_tsumitate_balance", "company_stock_balance" }

FiveBalances(a) ==
    a.cash_balance + a.taxable_account_balance + a.nisa_growth_balance
    + a.nisa_tsumitate_balance + a.company_stock_balance

\* C23: in simulate_retirement a year with negative cashflow withdraws the
\* full deficit in the order cash, taxable account, NISA growth, NISA
\* tsumitate, company stock: after the withdrawal either the total removed
\* from the five balances equals the deficit or all five balances are zero,
\* and no balance is negative.
C23_DeficitFullyWithdrawn ==
    \A i \in 1..Len(ret_withdrawals) :
        LET w == ret_withdrawals[i]
        IN /\ \/ FiveBalances(w.before) - FiveBalances(w.after) = w.deficit
              \/ \A f \in RetirementFields : w.after[f] = 0
           /\ \A f \in RetirementFields : w.after[f] >= 0

\* ------------------------------------------------------------------ C24
\* the names used for scenarios
StoredNames == { <<"a">>, <<"b">>, <<"c">> }

\* load_scenario against the latest successful save of a name
LoadsLatestSave(name) ==
    LET loaded == load_scenario(name)
        latest == { l \in scenario_latest : l.name = name }
    IN IF latest = {} THEN ~loaded.found
       ELSE /\ loaded.found
            /\ \A l \in latest : /\ loaded.name = l.name
                                 /\ loaded.settings = l.settings
                                 /\ loaded.data = l.data

\* a scenario handler that reports failure has left the table as it was
FailedScenarioCallChangesNothing ==
    (/\ db_result'.call \in {"save_scenario", "delete_scenario"}
     /\ ~db_result'.success)
    => UNCHANGED scenarios

WholeYen(x) == IF x >= 0 THEN x \div 10 ELSE -((-x) \div 10)

\* the records returned for a key
RecordsOf(of_year, of_month) ==
    LET all == get_all_actual_records(actual_records)
    IN { i \in 1..Len(all) : all[i].year = of_year /\ all[i].month = of_month }

OnePerKeyInOrder ==
    LET all == get_all_actual_records(actual_records)
    IN /\ Len(all) = Cardinality(actual_records)
       /\ \A l \in actual_latest : Cardinality(RecordsOf(l.year, l.month)) = 1
       /\ \A i \in 1..Len(all) :
             \E l \in actual_latest : l.year = all[i].year /\ l.month = all[i].month
       /\ \A i \in 1..Len(all), j \in 1..Len(all) :
             i < j => \/ all[i].year < all[j].year
                      \/ /\ all[i].year = all[j].year
                         /\ all[i].month < all[j].month

\* the record of a key holds the amounts of its latest save as they were given
HoldsGivenValues ==
    LET all == get_all_actual_records(actual_records)
    IN \A l \in actual_latest : \A i \in RecordsOf(l.year, l.month) :
          /\ all[i].age = l.given.age
          /\ all[i].notes = l.given.notes
          /\ all[i].income_actual * 10 = l.given.income_actual
          /\ all[i].expenses_actual * 10 = l.given.expenses_actual
          /\ all[i].investment_actual * 10 = l.given.investment_actual
          /\ all[i].cash_balance_actual * 10 = l.given.cash_balance_actual

\* the record of a key holds the amounts of its latest save cut to whole yen
HoldsWholeYenValues ==
    LET all == get_all_actual_records(actual_records)
    IN \A l \in actual_latest : \A i \in RecordsOf(l.year, l.month) :
          /\ all[i].age = l.given.age
          /\ all[i].notes = l.given.notes
          /\ all[i].income_actual = WholeYen(l.given.income_actual)
          /\ all[i].expenses_actual = WholeYen(l.given.expenses_actual)
          /\ all[i].investment_actual = WholeYen(l.given.investment_actual)
          /\ all[i].cash_balance_actual = WholeYen(l.given.cash_balance_actual)

RejectedSaveChangesNothing ==
    (db_result'.call = "save_actual_record" /\ ~db_result'.success)
    => UNCHANGED actual_records

\* C25 as claimed: after any sequence of save_actual_record and
\* delete_actual_record calls there is at most one actual record per
\* (year, month) and it holds the values of the latest save for that key;
\* get_all_actual_records returns the records ordered by (year, month); a save
\* through the API with month outside 1..12 returns an error and leaves the
\* records unchanged.
C25_RecordHoldsLatestSave ==
    /\ []OnePerKeyInOrder
    /\ []HoldsGivenValues
    /\ [](\A r \in actual_records : r.record_month \in 1..12)
    /\ [][RejectedSaveChangesNothing]_vars

\* C25 amended: the same, the record holding the four amounts of the latest
\* save truncated to integers.
C25_RecordHoldsLatestSaveInWholeYen ==
    /\ []OnePerKeyInOrder
    /\ []HoldsWholeYenValues
    /\ [](\A r \in actual_records : r.record_month \in 1..12)
    /\ [][RejectedSaveChangesNothing]_vars

\* December 2025 and January 2026 are stored, the first with amounts that
\* were given with a fraction of a yen
C25_Witness ==
    LET all == get_all_actual_records(actual_records)
    IN /\ Len(all) = 2
       /\ all[1].year = 2025 /\ all[1].month = 12
       /\ all[2].year = 2026 /\ all[2].month = 1
       /\ all[1].income_actual = 300 /\ all[1].cash_balance_actual = -1
       /\ all[2].notes = "a"

\* ---------------------------------------------------------------- C26
SimulatedAges(p) == p.basic_info.start_age..p.basic_info.end_age

SalaryUpdated ==
    /\ api_call.fn \in {"update_single_age_salary", "update_salary_range"}
    /\ ~api_call.error

\* C26: update_single_age_salary and update_salary_range change the resolved
\* salary only for the targeted ages: after a successful update every
\* simulated age outside the target resolves, in the stored plan and in the
\* calculator re-run on it, to the (base salary, bonus months) it resolved to
\* before; and an update_salary_range call targeting an age outside
\* start_age..end_age returns an error and leaves the stored plan as it was.
C26_SalaryUpdateTouchesTargetOnly ==
    /\ SalaryUpdated =>
         /\ sim_plan = plan
         /\ \A a \in SimulatedAges(plan_before) \ api_call.ages :
               get_salary_for_age(plan, a) = get_salary_for_age(plan_before, a)
    /\ ( /\ api_call.fn = "update_salary_range"
         /\ ~(api_call.ages \subseteq SimulatedAges(plan_before)) ) =>
         /\ api_call.error
         /\ plan = plan_before

\* a finished re-run after an update of one age that changed that age, with
\* a later age that resolved to the same anchor before and keeps its salary
C26_Witness ==
    /\ SalaryUpdated
    /\ pc = "done"
    /\ \E t \in api_call.ages, a \in SimulatedAges(plan_before) \ api_call.ages :
          /\ a > t
          /\ get_salary_for_age(plan_before, a) = get_salary_for_age(plan_before, t)
          /\ get_salary_for_age(plan, t) # get_salary_for_age(plan_before, t)
          /\ get_salary_for_age(plan, a) = get_salary_for_age(plan_before, a)

\* ---------------------------------------------------------------- C28
CustomEventsOfPlan(p) == GetOr(p.life_events, "custom_events", <<>>)

\* the yearly record of the age holds an entry of the event with its cost
SettledInYear(name, at_age, cost) ==
    \E i \in 1..Len(calc_yearly_data) :
       /\ calc_yearly_data[i].age = at_age
       /\ \E j \in 1..Len(calc_yearly_data[i].irregular_expenses) :
             /\ calc_yearly_data[i].irregular_expenses[j].type
                   = <<"custom_event", name>>
             /\ calc_yearly_data[i].irregular_expenses[j].amount = cost

\* C28: a custom life event stored by a successful save_custom_event call is
\* settled by the re-run simulation: the yearly record of the event's age
\* holds an irregular-expense entry of that event with its cost; and after
\* delete_custom_event no entry of the deleted event remains.
C28_SavedEventIsSettled ==
    /\ ( /\ api_call.fn = "save_custom_event" /\ ~api_call.error
         /\ pc = "done"
         /\ \E i \in 1..Len(CustomEventsOfPlan(plan)) :
               /\ CustomEventsOfPlan(plan)[i].id = api_call.event.id
               /\ CustomEventsOfPlan(plan)[i].name = api_call.event.name ) =>
         SettledInYear(api_call.event.name, api_call.event.age,
                       api_call.event.cost)
    /\ ( api_call.fn = "delete_custom_event" /\ pc = "done" ) =>
         \A i \in 1..Len(CustomEventsOfPlan(plan_before)) :
            CustomEventsOfPlan(plan_before)[i].id = api_call.event.id =>
              ~SettledInYear(CustomEventsOfPlan(plan_before)[i].name,
                             CustomEventsOfPlan(plan_before)[i].age,
                             CustomEventsOfPlan(plan_before)[i].cost)

\* ---------------------------------------------------------------- C29
\* C29: in calculate_scenario_comparison a scenario whose spouse_income is
\* "none" produces monthly records with spouse_income 0 at every simulated
\* age, and the overrides of a scenario never alter the stored plan.
C29_NoSpouseIncomeScenario ==
    /\ ( /\ mc_pc = "comparison" /\ trial >= 1
         /\ GetOr(api_call.scenarios[trial], "spouse_income", "absent")
               = "none" ) =>
         \A i \in 1..Len(monthly_data) :
            monthly_data[i].income.spouse_income = 0
    /\ api_call.fn = "calculate_scenario_comparison" => plan = plan_before

====
